---- MODULE Spec2Model ----
(***************************************************************************)
(* Quiz-session reconciliation, persistence and experience progression of  *)
(* the programming quiz front end (QuizPage, CodeSandboxPage, AuthContext, *)
(* Navbar, PromptPage) together with the experience-award service.         *)
(***************************************************************************)
EXTENDS Integers, Sequences, FiniteSets, TLC

\* ------------------------------------------------------------------ bounds
\* longest question list the generation service returns
MaxQuestions == 2
\* number of session ids (Date.now() readings at navigation) handed out
MaxClock == 2
\* award requests / responses simultaneously in flight
MaxInFlight == 1
\* cap on the XP one session accumulates in the tab (answers stop being
\* correct there)
MaxSessionXp == 20
\* cap on the awards the backend is asked for by one account in the tab
MaxAwards == 2
\* auto-advance timers of the sandbox pending at once
MaxTimers == 1
\* feedback timers of unmounted QuizPage instances tracked at once
MaxStale == 1
\* longest quiz of the runner taken on its own
MaxRun == 2
\* /prompt requests in flight
MaxGen == 1
\* hint requests of one view in flight at once
MaxHints == 2
\* award requests of one quiz outstanding at once
MaxOutstanding == 2
\* highest option ordinal offered by a question with more than four options
MaxOrdinal == 5
\* challenges of a set handed to the sandbox on its own
MaxChallenges == 3
\* auto-advance timers pending at once in the sandbox on its own
MaxPending == 2
\* highest question count the + button of the prompt form is pressed to
MaxCount == 6
\* inputs of the progression calculator
MaxExp == 6
MaxReq == 5
MaxAward == 12
MaxLevel == 2

\* ------------------------------------------------------- program constants
XP_PER_CORRECT == 10

UserIds == {1}
Letters == <<"A", "B", "C", "D">>
Ordinals == 0 .. 3
NullIndex == -2

\* ------------------------------------------------------------------- data
\* the generation service returns one question list per requested length;
\* the correct tag is whatever the service wrote (not always one of A..D)
CorrectTag(n, i) == IF n = 2 /\ i = 1 THEN "E" ELSE Letters[((n + i) % 4) + 1]

McqQuiz(n) ==
  [i \in 1 .. n |-> [question |-> <<"mcq", n, i>>, correct_answer |-> CorrectTag(n, i)]]

StarterCode(n, i) == IF i % 2 = 0 THEN "" ELSE "starter" \o ToString(i)

CodingQuiz(n) ==
  [i \in 1 .. n |-> [question |-> <<"coding", n, i>>, starter_code |-> StarterCode(n, i)]]

Languages == {"Python"}

\* lang.toLowerCase() on the language names in use
ToLowerCase(lang) == IF lang = "Python" THEN "python" ELSE lang

getDefaultStub(lang) ==
  IF ToLowerCase(lang) = "python" THEN "# Write your solution here"
  ELSE "// Write your solution here"

\* variant: the position is counted from one
IndexOfLetterFromOne(tag) ==
  IF \E k \in 1 .. 4 : Letters[k] = tag
  THEN CHOOSE k \in 1 .. 4 : Letters[k] = tag
  ELSE -1

\* Array.prototype.indexOf on the letter list: -1 when absent
IndexOfLetter(tag) ==
  IF \E k \in 1 .. 4 : Letters[k] = tag
  THEN (CHOOSE k \in 1 .. 4 : Letters[k] = tag) - 1
  ELSE -1

\* ["A","B","C","D"][index]: undefined (here "") beyond the fourth ordinal
\* variant: the letters repeat after the fourth option
LetterFromIndexWrapping(index) == Letters[(index % 4) + 1]

LetterFromIndex(index) == IF index \in 0 .. 3 THEN Letters[index + 1] ELSE ""

\* ------------------------------------------------------------------ state
\* The records qp and sb hold the component state of the two quiz views.
\* Some of their fields are bookkeeping of the model, not program state:
\* `instance` tells one mounted instance of a view from the next (a reload
\* replaces the instance), `pristine` is TRUE from the mount until the first
\* later render of that instance, `over` is the session id of the stored
\* record the instance found at its mount (0 for none), `accepted` counts
\* the answers the instance accepted.  `stale` counts the feedback timers
\* still pending for QuizPage instances that were unmounted since (MaxStale
\* of them are tracked): they run, and their state setters reach a component
\* that is gone.  The sandbox's callbacks leave the state with its instance.
VARIABLES
  route,        \* current path of the router
  navState,     \* location.state of the current history entry
  backEntry,    \* the quiz-view history entry the Back button returns to
  now,          \* Date.now()
  user, token,  \* AuthProvider state
  lsUser, lsToken,  \* localStorage 'user' and 'token'
  store,        \* sessionStorage
  qp,           \* QuizPage component state
  sb,           \* CodeSandboxPage component state
  serverUsers,  \* user table of the backend
  awardReqs,    \* /add-xp requests in flight
  awardResps,   \* /add-xp responses in flight
  calc,         \* progression calculator: inputs and result
  isLoading,    \* AuthProvider's isLoading
  lp,           \* AuthPage component state
  pp,           \* PromptPage component state
  genReqs       \* /prompt requests in flight

vars == <<route, navState, backEntry, now, user, token, lsUser, lsToken,
          store, qp, sb, serverUsers, awardReqs, awardResps, calc, pp, genReqs,
          isLoading, lp>>

NoUser == [id |-> 0, exp |-> 0, level |-> 0, xp_required |-> 0]
NoNav == [present |-> FALSE, quizData |-> <<>>, sessionId |-> 0, language |-> ""]
NoBack == [route |-> "", state |-> NoNav]

QuizFeature == "quizPageSession"
CodeFeature == "codeSandboxSession"
Features == {QuizFeature, CodeFeature}

\* `quizPageSession_${userId}` / `codeSandboxSession_${userId}`
quizSessionKey(userId) == <<QuizFeature, userId>>
codeSessionKey(userId) == <<CodeFeature, userId>>
Keys == Features \X UserIds

Absent == [raw |-> "absent"]

\* a stored string that JSON.parse rejects
Malformed == [raw |-> "malformed"]

\* JSON.stringify of a session record, and JSON.parse of a stored string:
\* a set with the parsed value, or a throw (reported as "throws")
JsonStringify(rec) == [raw |-> "json", value |-> rec]
JsonThrows(raw) == raw.raw = "malformed"
JsonParse(raw) == raw.value

UnmountedQuiz ==
  [mounted |-> FALSE, instance |-> 0, pristine |-> FALSE, over |-> 0, quiz |-> <<>>, sessionId |-> 0,
   currentIndex |-> 0, finished |-> FALSE, totalXpEarned |-> 0,
   answered |-> FALSE, selectedAnswer |-> NullIndex,
   correctAnswerIndex |-> NullIndex, feedbackMessage |-> "", timers |-> {},
   hints |-> <<>>, hintLoading |-> FALSE, hintReqs |-> <<>>, hintRejected |-> FALSE,
   crashed |-> FALSE,
   accepted |-> 0, stale |-> 0]

UnmountedSandbox ==
  [mounted |-> FALSE, instance |-> 0, pristine |-> FALSE, over |-> 0, questions |-> <<>>, language |-> "",
   sessionId |-> 0, currentIndex |-> 0, code |-> "", finished |-> FALSE,
   output |-> "", isRunning |-> FALSE,
   isSubmitting |-> FALSE, submitIndex |-> 0, timers |-> <<>>]

\* the form of PromptPage as its useState calls start it.  `sent` is
\* bookkeeping: the fetches of /prompt issued by the last call of the submit
\* handler
\* AuthPage as mounted: no message
LoginInitial == [error |-> ""]

PromptInitial ==
  [quizType |-> "", selectedModel |-> "", selectedLanguage |-> "", numQuestions |-> 5,
   prompt |-> "", error |-> "", loading |-> FALSE, sent |-> 0]

\* ------------------------------------------------- QuizPage reconciliation
\* variant: the stored record is never read
QuizSavedSessionNeverRead(st, u) == {}

\* variant: no try / catch, a string that does not parse is taken for an
\* empty finished session
QuizSavedSessionWithoutCatch(st, u) ==
  IF u.id = 0 THEN {}
  ELSE LET raw == st[quizSessionKey(u.id)]
       IN IF raw.raw = "absent" THEN {}
          ELSE IF JsonThrows(raw)
               THEN {[sessionId |-> 1, quiz |-> <<>>, currentIndex |-> 0,
                      finished |-> TRUE, totalXpEarned |-> 0]}
          ELSE {JsonParse(raw)}

\* savedSession: {} for null, else a one-element set
QuizSavedSession(st, u) ==
  IF u.id = 0 THEN {}
  ELSE LET raw == st[quizSessionKey(u.id)]
       IN IF raw.raw = "absent" THEN {}
          ELSE IF JsonThrows(raw) THEN {}
          ELSE {JsonParse(raw)}

\* variant: any stored record is resumed, whatever its session id
QuizIsFreshOnlyWithoutStored(saved, nav) ==
  /\ nav.present /\ Len(nav.quizData) > 0
  /\ saved = {}

QuizIsFresh(saved, nav) ==
  /\ nav.present /\ Len(nav.quizData) > 0
  /\ (saved = {} \/ \E x \in saved : x.sessionId # nav.sessionId)

\* the five useState initialisers of QuizPage
QuizInitial(st, u, nav, clock, inst) ==
  LET saved == QuizSavedSession(st, u)
      fresh == QuizIsFresh(saved, nav)
      s == CHOOSE x \in saved : TRUE
  IN [UnmountedQuiz EXCEPT
        !.mounted = TRUE,
        !.instance = inst,
        !.pristine = TRUE,
        !.over = IF saved # {} THEN s.sessionId ELSE 0,
        !.quiz = IF fresh THEN nav.quizData
                 ELSE IF saved # {} THEN s.quiz
                 ELSE IF nav.present THEN nav.quizData ELSE <<>>,
        !.sessionId = IF fresh THEN nav.sessionId
                      ELSE IF saved # {} THEN s.sessionId
                      ELSE IF nav.present THEN nav.sessionId ELSE clock,
        !.currentIndex = IF fresh THEN 0 ELSE IF saved # {} THEN s.currentIndex ELSE 0,
        !.finished = IF fresh THEN FALSE ELSE IF saved # {} THEN s.finished ELSE FALSE,
        !.totalXpEarned = IF fresh THEN 0 ELSE IF saved # {} THEN s.totalXpEarned ELSE 0]

QuizRecord(q) ==
  [sessionId |-> q.sessionId, quiz |-> q.quiz, currentIndex |-> q.currentIndex,
   finished |-> q.finished, totalXpEarned |-> q.totalXpEarned]

\* variant: a finished session is removed from the store instead of written
QuizPersistClearsFinished(st, u, q) ==
  IF Len(q.quiz) > 0 /\ u.id # 0
  THEN [st EXCEPT ![quizSessionKey(u.id)] =
          IF q.finished THEN Absent ELSE JsonStringify(QuizRecord(q))]
  ELSE st

\* body of the persistence effect of QuizPage
QuizPersist(st, u, q) ==
  IF Len(q.quiz) > 0 /\ u.id # 0
  THEN [st EXCEPT ![quizSessionKey(u.id)] = JsonStringify(QuizRecord(q))]
  ELSE st

\* variant: totalXpEarned is missing from the dependency list
QuizEffectWithoutXpDep(st, u0, q0, u1, q1, firstRender) ==
  IF q1.mounted /\ ( \/ firstRender
                     \/ q0.currentIndex # q1.currentIndex
                     \/ q0.finished # q1.finished
                     \/ u0.id # u1.id )
  THEN QuizPersist(st, u1, q1)
  ELSE st

\* the effect runs after the first render and whenever a dependency changed
QuizEffect(st, u0, q0, u1, q1, firstRender) ==
  IF q1.mounted /\ (firstRender \/ QuizRecord(q0) # QuizRecord(q1) \/ u0.id # u1.id)
  THEN QuizPersist(st, u1, q1)
  ELSE st

\* ------------------------------------------ CodeSandboxPage reconciliation
CodeSavedSession(st, u) ==
  IF u.id = 0 THEN {}
  ELSE LET raw == st[codeSessionKey(u.id)]
       IN IF raw.raw = "absent" THEN {}
          ELSE IF JsonThrows(raw) THEN {}
          ELSE {JsonParse(raw)}

\* variant: incoming data always starts over, the stored record is ignored
CodeIsFreshAlways(saved, nav) ==
  nav.present /\ Len(nav.quizData) > 0

CodeIsFresh(saved, nav) ==
  /\ nav.present /\ Len(nav.quizData) > 0
  /\ (saved = {} \/ \E x \in saved : x.sessionId # nav.sessionId)

\* location.state?.language ?? "javascript"
NavLanguage(nav) == IF nav.present /\ nav.language # "" THEN nav.language ELSE "javascript"

\* qs[idx]?.starter_code || getDefaultStub(lang)
StarterOrStub(qs, idx, lang) ==
  IF idx + 1 \in DOMAIN qs /\ qs[idx + 1].starter_code # ""
  THEN qs[idx + 1].starter_code
  ELSE getDefaultStub(lang)

\* the six useState initialisers of CodeSandboxPage
CodeInitial(st, u, nav, clock, inst) ==
  LET saved == CodeSavedSession(st, u)
      fresh == CodeIsFresh(saved, nav)
      s == CHOOSE x \in saved : TRUE
  IN [UnmountedSandbox EXCEPT
        !.mounted = TRUE,
        !.instance = inst,
        !.pristine = TRUE,
        !.over = IF saved # {} THEN s.sessionId ELSE 0,
        !.questions = IF fresh THEN nav.quizData
                      ELSE IF saved # {} THEN s.questions
                      ELSE IF nav.present THEN nav.quizData ELSE <<>>,
        !.language = IF fresh THEN NavLanguage(nav)
                     ELSE IF saved # {} THEN s.language
                     ELSE NavLanguage(nav),
        !.sessionId = IF fresh THEN nav.sessionId
                      ELSE IF saved # {} THEN s.sessionId
                      ELSE IF nav.present THEN nav.sessionId ELSE clock,
        !.currentIndex = IF fresh THEN 0 ELSE IF saved # {} THEN s.currentIndex ELSE 0,
        !.code = IF fresh THEN StarterOrStub(nav.quizData, 0, NavLanguage(nav))
                 ELSE IF saved # {} THEN s.code
                 ELSE getDefaultStub("javascript"),
        !.finished = IF fresh THEN FALSE ELSE IF saved # {} THEN s.finished ELSE FALSE]

CodeRecord(c) ==
  [sessionId |-> c.sessionId, questions |-> c.questions, language |-> c.language,
   currentIndex |-> c.currentIndex, code |-> c.code, finished |-> c.finished]

\* variant: an existing record is kept, only a missing one is written
CodePersistKeepsStored(st, u, c) ==
  IF Len(c.questions) > 0 /\ u.id # 0 /\ st[codeSessionKey(u.id)].raw = "absent"
  THEN [st EXCEPT ![codeSessionKey(u.id)] = JsonStringify(CodeRecord(c))]
  ELSE st

\* body of the persistence effect of CodeSandboxPage
CodePersist(st, u, c) ==
  IF Len(c.questions) > 0 /\ u.id # 0
  THEN [st EXCEPT ![codeSessionKey(u.id)] = JsonStringify(CodeRecord(c))]
  ELSE st

CodeEffect(st, u0, c0, u1, c1, firstRender) ==
  IF c1.mounted /\ (firstRender \/ CodeRecord(c0) # CodeRecord(c1) \/ u0.id # u1.id)
  THEN CodePersist(st, u1, c1)
  ELSE st

\* both persistence effects after a render that was not a mount
Effects(st, u0, q0, c0, u1, q1, c1) ==
  CodeEffect(QuizEffect(st, u0, q0, u1, q1, FALSE), u0, c0, u1, c1, FALSE)

\* ------------------------------------------------- progression calculator
\* variant: the threshold is compared one point too low
AddXpThresholdOff(e, r, lvl, a) ==
  IF e + a >= r - 1
  THEN [exp |-> e + a - r, level |-> lvl + 1, xp_required |-> r, leveled_up |-> TRUE]
  ELSE [exp |-> e + a, level |-> lvl, xp_required |-> r, leveled_up |-> FALSE]

\* variant: the award is carried over every threshold it crosses
AddXpEveryThreshold(e, r, lvl, a) ==
  IF e + a >= r
  THEN [exp |-> (e + a) % r, level |-> lvl + ((e + a) \div r), xp_required |-> r,
        leveled_up |-> TRUE]
  ELSE [exp |-> e + a, level |-> lvl, xp_required |-> r, leveled_up |-> FALSE]

\* the experience-award service: one threshold check per award
AddXp(e, r, lvl, a) ==
  IF e + a >= r
  THEN [exp |-> e + a - r, level |-> lvl + 1, xp_required |-> r, leveled_up |-> TRUE]
  ELSE [exp |-> e + a, level |-> lvl, xp_required |-> r, leveled_up |-> FALSE]

NoResult == [exp |-> -1, level |-> -1, xp_required |-> -1, leveled_up |-> FALSE]

\* the user record a response carries (xp_gained, leveled_up, new_level stripped)
UserRecord(uid, row) ==
  [id |-> uid, exp |-> row.exp, level |-> row.level, xp_required |-> row.xp_required]

\* ------------------------------------------------------------------- Init
InitialRow == [exp |-> 95, level |-> 1, xp_required |-> 100]

InitCommon ==
  /\ route = "/"
  /\ navState = NoNav
  /\ backEntry = NoBack
  /\ now = 1
  /\ user = NoUser /\ token = 0
  /\ lsUser = NoUser /\ lsToken = 0
  /\ store = [k \in Keys |-> Absent]
  /\ qp = UnmountedQuiz
  /\ sb = UnmountedSandbox
  /\ serverUsers = [u \in UserIds |-> InitialRow]
  /\ awardReqs = <<>>
  /\ awardResps = <<>>
  /\ genReqs = <<>>
  /\ isLoading = FALSE
  /\ lp = LoginInitial

Init ==
  /\ InitCommon
  /\ calc = [e |-> 0, r |-> 1, level |-> 1, a |-> 0, out |-> NoResult]
  /\ pp = PromptInitial

\* ------------------------------------------------------------- navigation
QuizRoutes == {"/quiz", "/code-sandbox"}

\* feedback timers pending once instance `q` is unmounted: its own and those
\* left by earlier instances
QuizPending(q) ==
  IF q.stale + Cardinality(q.timers) <= MaxStale
  THEN q.stale + Cardinality(q.timers)
  ELSE MaxStale

UnmountQuiz(q) == [UnmountedQuiz EXCEPT !.stale = QuizPending(q)]

\* a new instance of the view, next to what the former one left pending
MountQuiz(st, u, nav, clock, inst, old) ==
  [QuizInitial(st, u, nav, clock, inst) EXCEPT !.stale = QuizPending(old)]

isAuthenticated == user.id # 0 /\ token # 0

\* the history entry Back returns to after a push away from a quiz view
BackAfterLeaving ==
  IF route \in QuizRoutes THEN [route |-> route, state |-> navState] ELSE backEntry

\* the /prompt requests once the router shows path `r`: a request outlives
\* the PromptPage that issued it, whose state setters then reach nothing
Orphaned(r, reqs) ==
  IF r = "/prompt" /\ route = "/prompt" THEN reqs
  ELSE [i \in DOMAIN reqs |-> [reqs[i] EXCEPT !.mounted = FALSE]]

\* variant: a navigation to the route of the mounted view runs the state
\* initialisers again
RenderInitialisesAgain(r, nav, st, u) ==
  LET q1 == IF r # "/quiz" THEN UnmountQuiz(qp)
            ELSE MountQuiz(st, u, nav, now, IF qp.mounted THEN qp.instance ELSE 0, qp)
      c1 == IF r # "/code-sandbox" THEN UnmountedSandbox
            ELSE CodeInitial(st, u, nav, now, IF sb.mounted THEN sb.instance ELSE 0)
  IN /\ route' = r
     /\ navState' = nav
     /\ backEntry' = IF r = route THEN backEntry ELSE BackAfterLeaving
     /\ qp' = q1
     /\ sb' = c1
     /\ pp' = PromptInitial
     /\ lp' = LoginInitial
     /\ genReqs' = Orphaned(r, genReqs)
     /\ store' = CodeEffect(QuizEffect(st, u, qp, u, q1, TRUE), u, sb, u, c1, TRUE)

\* the router renders the element of path `r` with location.state `nav`;
\* a view that stays on its route keeps its component state
RenderWith(r, nav, st, u, reqs) ==
  LET q1 == IF r # "/quiz" THEN UnmountQuiz(qp)
            ELSE IF route = "/quiz" /\ qp.mounted THEN [qp EXCEPT !.pristine = FALSE]
            ELSE MountQuiz(st, u, nav, now, 0, qp)
      c1 == IF r # "/code-sandbox" THEN UnmountedSandbox
            ELSE IF route = "/code-sandbox" /\ sb.mounted THEN [sb EXCEPT !.pristine = FALSE]
            ELSE CodeInitial(st, u, nav, now, 0)
  IN /\ route' = r
     /\ navState' = nav
     /\ backEntry' = IF r = route THEN backEntry ELSE BackAfterLeaving
     /\ qp' = q1
     /\ sb' = c1
     /\ pp' = IF r = "/prompt" /\ route = "/prompt" THEN pp ELSE PromptInitial
     /\ lp' = IF r = "/login" /\ route = "/login" THEN lp ELSE LoginInitial
     /\ genReqs' = Orphaned(r, reqs)
     /\ store' = CodeEffect(QuizEffect(st, u, qp, u, q1, ~(route = "/quiz" /\ qp.mounted)),
                            u, sb, u, c1, ~(route = "/code-sandbox" /\ sb.mounted))

Render(r, nav, st, u) == RenderWith(r, nav, st, u, genReqs)

\* Navbar: Home and Login buttons, LandingPage call-to-action
NavigateTo(path) ==
  /\ path \in {"/", "/login", "/prompt"}
  /\ path = "/login" => ~isAuthenticated
  /\ path = "/prompt" => route = "/"
  /\ path # route
  /\ Render(path, NoNav, store, user)
  /\ UNCHANGED <<now, user, token, lsUser, lsToken, serverUsers, awardReqs, awardResps, calc, isLoading>>

\* Navbar.handleQuizClick: the route it selects
QuizClickTarget(st, u) ==
  IF u.id = 0 THEN "/prompt"
  ELSE LET mcqRaw == st[quizSessionKey(u.id)]
           codeRaw == st[codeSessionKey(u.id)]
       IN IF mcqRaw.raw # "absent" /\ JsonThrows(mcqRaw) THEN "/prompt"
          ELSE IF mcqRaw.raw # "absent" /\ Len(JsonParse(mcqRaw).quiz) > 0
                  /\ ~JsonParse(mcqRaw).finished THEN "/quiz"
          ELSE IF codeRaw.raw # "absent" /\ JsonThrows(codeRaw) THEN "/prompt"
          ELSE IF codeRaw.raw # "absent" /\ Len(JsonParse(codeRaw).questions) > 0
                  /\ ~JsonParse(codeRaw).finished THEN "/code-sandbox"
          ELSE "/prompt"

handleQuizClick ==
  /\ Render(QuizClickTarget(store, user), NoNav, store, user)
  /\ UNCHANGED <<now, user, token, lsUser, lsToken, serverUsers, awardReqs, awardResps, calc, isLoading>>

\* the browser's Back button, returning to the quiz-view entry last left
GoBack ==
  /\ route \notin QuizRoutes
  /\ backEntry.route # ""
  /\ Render(backEntry.route, backEntry.state, store, user)
  /\ UNCHANGED <<now, user, token, lsUser, lsToken, serverUsers, awardReqs, awardResps, calc, isLoading>>

\* PromptPage.handleSubmit with valid inputs and a successful response
GenerateQuiz(kind, n, lang) ==
  /\ route = "/prompt"
  /\ isAuthenticated
  /\ now <= MaxClock
  /\ now' = now + 1
  /\ IF kind = "coding"
     THEN Render("/code-sandbox",
                 [present |-> TRUE, quizData |-> CodingQuiz(n), sessionId |-> now,
                  language |-> ToLowerCase(lang)], store, user)
     ELSE Render("/quiz",
                 [present |-> TRUE, quizData |-> McqQuiz(n), sessionId |-> now,
                  language |-> ""], store, user)
  /\ UNCHANGED <<user, token, lsUser, lsToken, serverUsers, awardReqs, awardResps, calc, isLoading>>

\* ---------------------------------------------------------- AuthProvider
\* login(email, password) answered with 200, then AuthPage navigates home
Login(uid) ==
  /\ route = "/login"
  /\ token' = uid
  /\ user' = UserRecord(uid, serverUsers[uid])
  /\ lsToken' = uid
  /\ lsUser' = user'
  /\ Render("/", NoNav, store, user')
  /\ UNCHANGED <<now, serverUsers, awardReqs, awardResps, calc, isLoading>>

\* Navbar.handleLogout: logout() and navigate("/")
Logout ==
  /\ isAuthenticated
  /\ user' = NoUser /\ token' = 0
  /\ lsUser' = NoUser /\ lsToken' = 0
  /\ Render("/", NoNav, store, NoUser)
  /\ UNCHANGED <<now, serverUsers, awardReqs, awardResps, calc, isLoading>>

\* variant: the boot effect leaves localStorage as it finds it
BootKeepsLocalStorage(st) ==
  LET q1 == IF route = "/quiz"
            THEN QuizInitial(st, NoUser, navState, now, IF qp.mounted THEN 1 - qp.instance ELSE 0)
            ELSE UnmountedQuiz
      c1 == IF route = "/code-sandbox"
            THEN CodeInitial(st, NoUser, navState, now, IF sb.mounted THEN 1 - sb.instance ELSE 0)
            ELSE UnmountedSandbox
  IN /\ user' = NoUser /\ token' = 0
     /\ UNCHANGED <<lsUser, lsToken>>
     /\ qp' = q1
     /\ sb' = c1
     /\ store' = CodeEffect(QuizEffect(st, NoUser, qp, NoUser, q1, TRUE),
                            NoUser, sb, NoUser, c1, TRUE)
     /\ awardReqs' = [i \in DOMAIN awardReqs |-> [awardReqs[i] EXCEPT !.live = FALSE]]
     /\ awardResps' = <<>>
     /\ pp' = PromptInitial
     /\ genReqs' = <<>>
     /\ isLoading' = FALSE
     /\ lp' = LoginInitial
     /\ UNCHANGED <<route, navState, backEntry, now, serverUsers, calc>>

\* a page load: every component state is rebuilt, the boot effect of
\* AuthProvider clears the credentials, pending timers are gone with the
\* page, in-flight responses have no receiver
Boot(st) ==
  LET q1 == IF route = "/quiz"
            THEN QuizInitial(st, NoUser, navState, now, IF qp.mounted THEN 1 - qp.instance ELSE 0)
            ELSE UnmountedQuiz
      c1 == IF route = "/code-sandbox"
            THEN CodeInitial(st, NoUser, navState, now, IF sb.mounted THEN 1 - sb.instance ELSE 0)
            ELSE UnmountedSandbox
  IN /\ user' = NoUser /\ token' = 0
     /\ lsUser' = NoUser /\ lsToken' = 0
     /\ qp' = q1
     /\ sb' = c1
     /\ store' = CodeEffect(QuizEffect(st, NoUser, qp, NoUser, q1, TRUE),
                            NoUser, sb, NoUser, c1, TRUE)
     /\ awardReqs' = [i \in DOMAIN awardReqs |-> [awardReqs[i] EXCEPT !.live = FALSE]]
     /\ awardResps' = <<>>
     /\ pp' = PromptInitial
     /\ genReqs' = <<>>
     /\ isLoading' = FALSE
     /\ lp' = LoginInitial
     /\ UNCHANGED <<route, navState, backEntry, now, serverUsers, calc>>

\* the browser's reload button
Reload == Boot(store)

\* ---------------------------------------------------------------- QuizPage
RemoveAt(seq, i) == SubSeq(seq, 1, i - 1) \o SubSeq(seq, i + 1, Len(seq))

\* XP the backend has granted to `uid` so far, counting requests in flight
XpRequested(uid) ==
  (serverUsers[uid].level - InitialRow.level) * InitialRow.xp_required
  + serverUsers[uid].exp - InitialRow.exp
  + XP_PER_CORRECT * Cardinality({i \in DOMAIN awardReqs : awardReqs[i].uid = uid})

\* variant: the request is never sent
addXpToUserNeverSends(reqs) == reqs

\* addXpToUser up to the fetch: nothing without a token
addXpToUser(reqs) ==
  IF token = 0 THEN reqs ELSE Append(reqs, [uid |-> token, live |-> TRUE])

\* variant: the `answered` guard is missing
handleAnswerCappedWhileAnswered(index, caps) ==
  /\ route = "/quiz" /\ qp.mounted
  /\ Len(qp.quiz) > 0 /\ ~qp.finished
  /\ qp.currentIndex + 1 \in DOMAIN qp.quiz
  /\ LET currentQ == qp.quiz[qp.currentIndex + 1]
         isCorrect == LetterFromIndex(index) = currentQ.correct_answer
         q1 == [qp EXCEPT
                  !.pristine = FALSE,
                  !.answered = TRUE,
                  !.accepted = @ + 1,
                  !.selectedAnswer = index,
                  !.correctAnswerIndex = IndexOfLetter(currentQ.correct_answer),
                  !.totalXpEarned = IF isCorrect THEN @ + XP_PER_CORRECT ELSE @,
                  !.feedbackMessage =
                     IF isCorrect THEN "Correct!"
                     ELSE "Incorrect! The correct answer was " \o currentQ.correct_answer \o ".",
                  !.timers = @ \cup {qp.currentIndex}]
     IN /\ isCorrect => qp.totalXpEarned < caps.xp
        /\ (isCorrect /\ token # 0) =>
             /\ Len(awardReqs) + Len(awardResps) < caps.inFlight
             /\ XpRequested(token) < caps.awards * XP_PER_CORRECT
        /\ qp' = q1
        /\ awardReqs' = IF isCorrect THEN addXpToUser(awardReqs) ELSE awardReqs
        /\ store' = Effects(store, user, qp, sb, user, q1, sb)
  /\ UNCHANGED <<route, navState, backEntry, now, user, token, lsUser, lsToken,
                 sb, serverUsers, awardResps, calc, pp, genReqs, isLoading, lp>>

\* handleAnswer within the caps of a run: `xp` on the XP of the session,
\* `awards` on the awards asked for an account, `inFlight` on the requests
\* and responses under way
handleAnswerCapped(index, caps) ==
  /\ route = "/quiz" /\ qp.mounted
  /\ Len(qp.quiz) > 0 /\ ~qp.finished
  /\ qp.currentIndex + 1 \in DOMAIN qp.quiz
  /\ ~qp.answered
  /\ LET currentQ == qp.quiz[qp.currentIndex + 1]
         isCorrect == LetterFromIndex(index) = currentQ.correct_answer
         correctIdx == IndexOfLetter(currentQ.correct_answer)
         q1 == [qp EXCEPT
                  !.pristine = FALSE,
                  !.answered = TRUE,
                  !.accepted = @ + 1,
                  !.selectedAnswer = index,
                  !.correctAnswerIndex = correctIdx,
                  !.totalXpEarned = IF isCorrect THEN @ + XP_PER_CORRECT ELSE @,
                  !.feedbackMessage =
                     IF isCorrect THEN "Correct!"
                     ELSE "Incorrect! The correct answer was " \o currentQ.correct_answer \o ".",
                  !.timers = @ \cup {qp.currentIndex}]
     IN /\ isCorrect => qp.totalXpEarned < caps.xp
        /\ (isCorrect /\ token # 0) =>
             /\ Len(awardReqs) + Len(awardResps) < caps.inFlight
             /\ XpRequested(token) < caps.awards * XP_PER_CORRECT
        /\ qp' = q1
        /\ awardReqs' = IF isCorrect THEN addXpToUser(awardReqs) ELSE awardReqs
        /\ store' = Effects(store, user, qp, sb, user, q1, sb)
  /\ UNCHANGED <<route, navState, backEntry, now, user, token, lsUser, lsToken,
                 sb, serverUsers, awardResps, calc, pp, genReqs, isLoading, lp>>

\* the caps of the runs in the tab
TabCaps == [xp |-> MaxSessionXp, awards |-> MaxAwards, inFlight |-> MaxInFlight]

handleAnswer(index) == handleAnswerCapped(index, TabCaps)

\* the 2000 ms callback of handleAnswer, closed over index `i`, followed by
\* the reset effect when the index changed
FeedbackTimer(i) ==
  /\ qp.mounted /\ i \in qp.timers
  /\ LET advance == i + 1 < Len(qp.quiz)
         changed == advance /\ i + 1 # qp.currentIndex
         q1 == [qp EXCEPT
                  !.pristine = FALSE,
                  !.feedbackMessage = "",
                  !.timers = @ \ {i},
                  !.currentIndex = IF advance THEN i + 1 ELSE @,
                  !.finished = IF advance THEN @ ELSE TRUE,
                  !.answered = IF changed THEN FALSE ELSE @,
                  !.selectedAnswer = IF changed THEN NullIndex ELSE @,
                  !.correctAnswerIndex = IF changed THEN NullIndex ELSE @,
                  !.hints = IF changed THEN <<>> ELSE @]
     IN /\ qp' = q1
        /\ store' = Effects(store, user, qp, sb, user, q1, sb)
  /\ UNCHANGED <<route, navState, backEntry, now, user, token, lsUser, lsToken,
                 sb, serverUsers, awardReqs, awardResps, calc, pp, genReqs, isLoading, lp>>

\* the 2000 ms callback of an instance that was unmounted meanwhile: its
\* setters address no mounted component
StaleFeedbackTimer ==
  /\ qp.stale > 0
  /\ qp' = [qp EXCEPT !.stale = @ - 1]
  /\ UNCHANGED <<route, navState, backEntry, now, user, token, lsUser, lsToken,
                 store, sb, serverUsers, awardReqs, awardResps, calc, pp, genReqs, isLoading, lp>>

\* variant: removing a missing item leaves an empty string under the key
RemoveItemLeavesEmpty(st, key) ==
  [st EXCEPT ![key] = IF st[key].raw = "absent" THEN Malformed ELSE Absent]

\* sessionStorage.removeItem(key)
RemoveItem(st, key) == [st EXCEPT ![key] = Absent]

\* variant: the button only navigates, the record is left in the store
handleQuitQuizKeepsRecord ==
  /\ route = "/quiz" /\ qp.mounted
  /\ Render("/prompt", NoNav, store, user)
  /\ UNCHANGED <<now, user, token, lsUser, lsToken, serverUsers, awardReqs, awardResps, calc, isLoading>>

\* Quit Quiz / Create Another Quiz / Back to Prompt
handleQuitQuiz ==
  /\ route = "/quiz" /\ qp.mounted
  /\ Render("/prompt", NoNav,
            IF user.id # 0 THEN RemoveItem(store, quizSessionKey(user.id)) ELSE store,
            user)
  /\ UNCHANGED <<now, user, token, lsUser, lsToken, serverUsers, awardReqs, awardResps, calc, isLoading>>

\* --------------------------------------------------------- CodeSandboxPage
CodeTexts == {"typed"}

\* Editor onChange
EditCode(text) ==
  /\ route = "/code-sandbox" /\ sb.mounted
  /\ Len(sb.questions) > 0 /\ ~sb.finished
  /\ text # sb.code
  /\ sb' = [sb EXCEPT !.pristine = FALSE, !.code = text]
  /\ store' = Effects(store, user, qp, sb, user, qp, sb')
  /\ UNCHANGED <<route, navState, backEntry, now, user, token, lsUser, lsToken,
                 qp, serverUsers, awardReqs, awardResps, calc, pp, genReqs, isLoading, lp>>

\* what the output box shows after a request: the first line of the text
OutputOf(kind, outcome) ==
  IF kind = "submit"
  THEN CASE outcome = "success" -> "All tests passed!"
         [] outcome = "failed" -> "Some tests failed"
         [] OTHER -> "Failed to submit code"
  ELSE CASE outcome = "success" -> "Execution successful"
         [] outcome = "failed" -> "Execution failed"
         [] OTHER -> "Failed to execute code"

\* handleRunCode up to the fetch; both buttons are disabled while a request
\* of either is under way
handleRunCode ==
  /\ route = "/code-sandbox" /\ sb.mounted
  /\ Len(sb.questions) > 0 /\ ~sb.finished
  /\ ~sb.isRunning /\ ~sb.isSubmitting
  /\ sb' = [sb EXCEPT !.pristine = FALSE, !.isRunning = TRUE, !.output = "Running code..."]
  /\ UNCHANGED <<route, navState, backEntry, now, user, token, lsUser, lsToken,
                 store, qp, serverUsers, awardReqs, awardResps, calc, pp, genReqs, isLoading, lp>>

\* handleRunCode from the response on
RunResult(outcome) ==
  /\ sb.mounted /\ sb.isRunning
  /\ outcome \in {"success", "failed", "error"}
  /\ sb' = [sb EXCEPT !.isRunning = FALSE, !.output = OutputOf("run", outcome)]
  /\ UNCHANGED <<route, navState, backEntry, now, user, token, lsUser, lsToken,
                 store, qp, serverUsers, awardReqs, awardResps, calc, pp, genReqs, isLoading, lp>>

\* handleSubmit up to the fetch, with at most `cap` auto-advance timers
\* pending
handleSubmitCapped(cap) ==
  /\ route = "/code-sandbox" /\ sb.mounted
  /\ Len(sb.questions) > 0 /\ ~sb.finished
  /\ ~sb.isRunning /\ ~sb.isSubmitting
  /\ Len(sb.timers) < cap
  /\ sb' = [sb EXCEPT !.pristine = FALSE, !.isSubmitting = TRUE,
                      !.output = "Running tests...", !.submitIndex = sb.currentIndex]
  /\ UNCHANGED <<route, navState, backEntry, now, user, token, lsUser, lsToken,
                 store, qp, serverUsers, awardReqs, awardResps, calc, pp, genReqs, isLoading, lp>>

handleSubmit == handleSubmitCapped(MaxTimers)

\* variant: the timer is armed whatever the tests reported
SubmitResultAlwaysAdvances(outcome) ==
  /\ sb.mounted /\ sb.isSubmitting
  /\ outcome \in {"success", "failed", "error"}
  /\ sb' = [sb EXCEPT
              !.isSubmitting = FALSE,
              !.submitIndex = 0,
              !.output = OutputOf("submit", outcome),
              !.timers = IF outcome # "error" THEN Append(@, sb.submitIndex) ELSE @]
  /\ UNCHANGED <<route, navState, backEntry, now, user, token, lsUser, lsToken,
                 store, qp, serverUsers, awardReqs, awardResps, calc, pp, genReqs, isLoading, lp>>

\* handleSubmit from the response on: only overall success arms the timer
SubmitResult(outcome) ==
  /\ sb.mounted /\ sb.isSubmitting
  /\ outcome \in {"success", "failed", "error"}
  /\ sb' = [sb EXCEPT
              !.isSubmitting = FALSE,
              !.submitIndex = 0,
              !.output = OutputOf("submit", outcome),
              !.timers = IF outcome = "success" THEN Append(@, sb.submitIndex) ELSE @]
  /\ UNCHANGED <<route, navState, backEntry, now, user, token, lsUser, lsToken,
                 store, qp, serverUsers, awardReqs, awardResps, calc, pp, genReqs, isLoading, lp>>

\* handleNextQuestion as closed over index `i` by the timer at position k;
\* the timers have one delay, so they fire in the order they were armed
handleNextQuestion(k) ==
  /\ sb.mounted /\ k \in DOMAIN sb.timers /\ k = 1
  /\ LET i == sb.timers[k]
         advance == i + 1 < Len(sb.questions)
         c1 == [sb EXCEPT
                  !.pristine = FALSE,
                  !.timers = RemoveAt(@, k),
                  !.currentIndex = IF advance THEN i + 1 ELSE @,
                  !.code = IF advance THEN StarterOrStub(sb.questions, i + 1, sb.language) ELSE @,
                  !.output = IF advance THEN "" ELSE @,
                  !.finished = IF advance THEN @ ELSE TRUE]
     IN /\ sb' = c1
        /\ store' = Effects(store, user, qp, sb, user, qp, c1)
  /\ UNCHANGED <<route, navState, backEntry, now, user, token, lsUser, lsToken,
                 qp, serverUsers, awardReqs, awardResps, calc, pp, genReqs, isLoading, lp>>

\* Start New Challenge / Back to Prompt
SandboxBack ==
  /\ route = "/code-sandbox" /\ sb.mounted
  /\ sb.finished \/ Len(sb.questions) = 0
  /\ Render("/prompt", NoNav,
            IF user.id # 0 THEN RemoveItem(store, codeSessionKey(user.id)) ELSE store,
            user)
  /\ UNCHANGED <<now, user, token, lsUser, lsToken, serverUsers, awardReqs, awardResps, calc, isLoading>>

\* ------------------------------------------------- experience-award service
\* POST /add-xp answered with 200
ServerAddXp(k) ==
  /\ k \in DOMAIN awardReqs
  /\ LET uid == awardReqs[k].uid
         row == serverUsers[uid]
         res == AddXp(row.exp, row.xp_required, row.level, XP_PER_CORRECT)
         row1 == [exp |-> res.exp, level |-> res.level, xp_required |-> res.xp_required]
     IN /\ serverUsers' = [serverUsers EXCEPT ![uid] = row1]
        /\ awardResps' = IF awardReqs[k].live
                         THEN Append(awardResps, [user |-> UserRecord(uid, row1),
                                                  leveled_up |-> res.leveled_up])
                         ELSE awardResps
  /\ awardReqs' = RemoveAt(awardReqs, k)
  /\ UNCHANGED <<route, navState, backEntry, now, user, token, lsUser, lsToken,
                 store, qp, sb, calc, pp, genReqs, isLoading, lp>>

\* variant: a failed award takes the XP back from the session
AwardFailsRollsBack(k) ==
  /\ k \in DOMAIN awardReqs
  /\ awardReqs' = RemoveAt(awardReqs, k)
  /\ qp' = IF qp.mounted /\ qp.totalXpEarned >= XP_PER_CORRECT
           THEN [qp EXCEPT !.totalXpEarned = @ - XP_PER_CORRECT] ELSE qp
  /\ store' = Effects(store, user, qp, sb, user, qp', sb)
  /\ UNCHANGED <<route, navState, backEntry, now, user, token, lsUser, lsToken,
                 sb, serverUsers, awardResps, calc, pp, genReqs, isLoading, lp>>

\* the request is answered with an error status or the fetch rejects
AwardFails(k) ==
  /\ k \in DOMAIN awardReqs
  /\ awardReqs' = RemoveAt(awardReqs, k)
  /\ UNCHANGED <<route, navState, backEntry, now, user, token, lsUser, lsToken,
                 store, qp, sb, serverUsers, awardResps, calc, pp, genReqs, isLoading, lp>>

\* addXpToUser from `response.ok` on: updateUser(updatedUser)
AwardResponse(k) ==
  /\ k \in DOMAIN awardResps
  /\ user' = awardResps[k].user
  /\ lsUser' = awardResps[k].user
  /\ awardResps' = RemoveAt(awardResps, k)
  /\ qp' = [qp EXCEPT !.pristine = FALSE]
  /\ sb' = [sb EXCEPT !.pristine = FALSE]
  /\ store' = Effects(store, user, qp, sb, user', qp, sb)
  /\ UNCHANGED <<route, navState, backEntry, now, token, lsToken,
                 serverUsers, awardReqs, calc, pp, genReqs, isLoading, lp>>

\* -------------------------------------------------------------- PromptPage
\* the resume banner: which feature it offers, "" for no banner
ResumeBanner(st, u) ==
  IF u.id = 0 THEN ""
  ELSE LET mcqRaw == st[quizSessionKey(u.id)]
           codeRaw == st[codeSessionKey(u.id)]
       IN IF mcqRaw.raw # "absent" /\ JsonThrows(mcqRaw) THEN ""
          ELSE IF mcqRaw.raw # "absent" /\ Len(JsonParse(mcqRaw).quiz) > 0
                  /\ ~JsonParse(mcqRaw).finished THEN QuizFeature
          ELSE IF codeRaw.raw # "absent" /\ JsonThrows(codeRaw) THEN ""
          ELSE IF codeRaw.raw # "absent" /\ Len(JsonParse(codeRaw).questions) > 0
                  /\ ~JsonParse(codeRaw).finished THEN CodeFeature
          ELSE ""

\* Resume Quiz / Resume Challenge
ResumeFromBanner ==
  /\ route = "/prompt" /\ isAuthenticated
  /\ ResumeBanner(store, user) # ""
  /\ Render(IF ResumeBanner(store, user) = QuizFeature THEN "/quiz" ELSE "/code-sandbox",
            NoNav, store, user)
  /\ UNCHANGED <<now, user, token, lsUser, lsToken, serverUsers, awardReqs, awardResps, calc, isLoading>>

\* Discard: removeItem of the offered feature's key, then navigate(0)
Discard ==
  /\ route = "/prompt" /\ isAuthenticated
  /\ ResumeBanner(store, user) # ""
  /\ Boot(RemoveItem(store, <<ResumeBanner(store, user), user.id>>))

\* ------------------------------------------------------ PromptPage: form
QuizTypes == {"mcq", "coding"}
Models == {"openai"}
PromptTexts == {"", " ", "arrays"}

\* String.prototype.trim on the prompt texts in use
Trim(text) == IF text = " " THEN "" ELSE text

\* the quiz type cards
setQuizType(kind) ==
  /\ route = "/prompt" /\ isAuthenticated
  /\ kind # pp.quizType
  /\ pp' = [pp EXCEPT !.quizType = kind]
  /\ UNCHANGED <<route, navState, backEntry, now, user, token, lsUser, lsToken,
                 store, qp, sb, serverUsers, awardReqs, awardResps, calc, genReqs, isLoading, lp>>

\* the model select; the POST to /model it sends changes nothing here
handleModelChange(model) ==
  /\ route = "/prompt" /\ isAuthenticated
  /\ model # pp.selectedModel
  /\ pp' = [pp EXCEPT !.selectedModel = model]
  /\ UNCHANGED <<route, navState, backEntry, now, user, token, lsUser, lsToken,
                 store, qp, sb, serverUsers, awardReqs, awardResps, calc, genReqs, isLoading, lp>>

\* the language select, shown for the coding type; its option values are the
\* lower-cased names
setSelectedLanguage(lang) ==
  /\ route = "/prompt" /\ isAuthenticated
  /\ pp.quizType = "coding"
  /\ ToLowerCase(lang) # pp.selectedLanguage
  /\ pp' = [pp EXCEPT !.selectedLanguage = ToLowerCase(lang)]
  /\ UNCHANGED <<route, navState, backEntry, now, user, token, lsUser, lsToken,
                 store, qp, sb, serverUsers, awardReqs, awardResps, calc, genReqs, isLoading, lp>>

\* most questions the + button goes to for a quiz type
CountLimit(kind) == IF kind = "coding" THEN 10 ELSE 20

\* the - and + buttons of the question count (+ is pressed up to `cap`)
setNumQuestionsCapped(delta, cap) ==
  /\ route = "/prompt" /\ isAuthenticated
  /\ delta \in {-1, 1}
  /\ delta = -1 => pp.numQuestions > 1
  /\ delta = 1 => /\ pp.numQuestions < CountLimit(pp.quizType)
                  /\ pp.numQuestions < cap
  /\ pp' = [pp EXCEPT !.numQuestions = @ + delta]
  /\ UNCHANGED <<route, navState, backEntry, now, user, token, lsUser, lsToken,
                 store, qp, sb, serverUsers, awardReqs, awardResps, calc, genReqs, isLoading, lp>>

setNumQuestions(delta) == setNumQuestionsCapped(delta, MaxCount)

\* the textarea
setPrompt(text) ==
  /\ route = "/prompt" /\ isAuthenticated
  /\ text # pp.prompt
  /\ pp' = [pp EXCEPT !.prompt = text]
  /\ UNCHANGED <<route, navState, backEntry, now, user, token, lsUser, lsToken,
                 store, qp, sb, serverUsers, awardReqs, awardResps, calc, genReqs, isLoading, lp>>

\* the `disabled` attribute of the Generate button
GenerateDisabled(p) ==
  \/ p.loading
  \/ p.quizType = ""
  \/ p.selectedModel = ""
  \/ Trim(p.prompt) = ""
  \/ (p.quizType = "coding" /\ p.selectedLanguage = "")

\* variant: the prompt is tested as typed, without trimming
ValidationErrorUntrimmed(p) ==
  IF p.quizType = "" THEN "Please select a quiz type."
  ELSE IF p.selectedModel = "" THEN "Please select an AI model."
  ELSE IF p.prompt = ""
       THEN "Please enter a prompt describing what you want to learn."
  ELSE IF p.quizType = "coding" /\ p.selectedLanguage = ""
       THEN "Please select a programming language."
  ELSE ""

\* the four checks of handleSubmit: the message of the first that fails,
\* "" when all pass
ValidationError(p) ==
  IF p.quizType = "" THEN "Please select a quiz type."
  ELSE IF p.selectedModel = "" THEN "Please select an AI model."
  ELSE IF Trim(p.prompt) = ""
       THEN "Please enter a prompt describing what you want to learn."
  ELSE IF p.quizType = "coding" /\ p.selectedLanguage = ""
       THEN "Please select a programming language."
  ELSE ""

\* PromptPage.handleSubmit up to the fetch
PromptPageHandleSubmitCapped(cap) ==
  /\ route = "/prompt" /\ isAuthenticated
  /\ Len(genReqs) < cap
  /\ IF ValidationError(pp) # ""
     THEN /\ pp' = [pp EXCEPT !.error = ValidationError(pp), !.sent = 0]
          /\ genReqs' = genReqs
     ELSE /\ pp' = [pp EXCEPT !.error = "", !.loading = TRUE, !.sent = 1]
          /\ genReqs' = Append(genReqs,
                              [prompt |-> pp.prompt, quiz_type |-> pp.quizType,
                               language |-> pp.selectedLanguage,
                               num_questions |-> pp.numQuestions, mounted |-> TRUE])
  /\ UNCHANGED <<route, navState, backEntry, now, user, token, lsUser, lsToken,
                 store, qp, sb, serverUsers, awardReqs, awardResps, calc, isLoading, lp>>

PromptPageHandleSubmit == PromptPageHandleSubmitCapped(MaxGen)

\* handleSubmit from a response whose body parses on: a list of `n` questions
\* of the requested type is navigated to
GenerateResponds(k, n) ==
  /\ k \in DOMAIN genReqs
  /\ now <= MaxClock
  /\ now' = now + 1
  /\ IF genReqs[k].quiz_type = "coding"
     THEN RenderWith("/code-sandbox",
                     [present |-> TRUE, quizData |-> CodingQuiz(n), sessionId |-> now,
                      language |-> genReqs[k].language],
                     store, user, RemoveAt(genReqs, k))
     ELSE RenderWith("/quiz",
                     [present |-> TRUE, quizData |-> McqQuiz(n), sessionId |-> now,
                      language |-> ""],
                     store, user, RemoveAt(genReqs, k))
  /\ UNCHANGED <<user, token, lsUser, lsToken, serverUsers, awardReqs, awardResps, calc, isLoading>>

\* variant: a failed request is sent once more
GenerateFailsRetries(k) ==
  /\ k \in DOMAIN genReqs
  /\ genReqs' = Append(RemoveAt(genReqs, k), genReqs[k])
  /\ pp' = IF genReqs[k].mounted THEN [pp EXCEPT !.sent = @ + 1] ELSE pp
  /\ UNCHANGED <<route, navState, backEntry, now, user, token, lsUser, lsToken,
                 store, qp, sb, serverUsers, awardReqs, awardResps, calc, isLoading, lp>>

\* handleSubmit when the fetch rejects or the body does not parse: catch and
\* finally
GenerateFails(k) ==
  /\ k \in DOMAIN genReqs
  /\ genReqs' = RemoveAt(genReqs, k)
  /\ pp' = IF genReqs[k].mounted
           THEN [pp EXCEPT !.error = "Failed to generate quiz. Please try again.",
                           !.loading = FALSE]
           ELSE pp
  /\ UNCHANGED <<route, navState, backEntry, now, user, token, lsUser, lsToken,
                 store, qp, sb, serverUsers, awardReqs, awardResps, calc, isLoading, lp>>

\* ---------------------------------------------------------- specification
Next ==
  \/ \E path \in {"/", "/login", "/prompt"} : NavigateTo(path)
  \/ handleQuizClick
  \/ GoBack
  \/ \E n \in 1 .. MaxQuestions : GenerateQuiz("mcq", n, "")
  \/ \E n \in 1 .. MaxQuestions, lang \in Languages : GenerateQuiz("coding", n, lang)
  \/ \E uid \in UserIds : Login(uid)
  \/ Logout
  \/ Reload
  \/ ResumeFromBanner
  \/ Discard
  \/ \E index \in Ordinals : handleAnswer(index)
  \/ \E i \in 0 .. MaxQuestions : FeedbackTimer(i)
  \/ StaleFeedbackTimer
  \/ handleQuitQuiz
  \/ \E text \in CodeTexts : EditCode(text)
  \/ handleSubmit
  \/ \E outcome \in {"success", "failed", "error"} : SubmitResult(outcome)
  \/ \E k \in 1 .. MaxTimers : handleNextQuestion(k)
  \/ SandboxBack
  \/ \E k \in 1 .. MaxInFlight : ServerAddXp(k)
  \/ \E k \in 1 .. MaxInFlight : AwardFails(k)
  \/ \E k \in 1 .. MaxInFlight : AwardResponse(k)

Spec == Init /\ [][Next]_vars

\* ------------------------------------- progression calculator on its own
\* every (experience, requirement, level, award) within the bounds
InitCalc ==
  /\ InitCommon
  /\ calc \in [e : 0 .. MaxExp, r : 1 .. MaxReq, level : 1 .. MaxLevel,
               a : 0 .. MaxAward, out : {NoResult}]
  /\ pp = PromptInitial

ApplyAward ==
  /\ calc.out = NoResult
  /\ calc' = [calc EXCEPT !.out = AddXp(calc.e, calc.r, calc.level, calc.a)]
  /\ UNCHANGED <<route, navState, backEntry, now, user, token, lsUser, lsToken,
                 store, qp, sb, serverUsers, awardReqs, awardResps, pp, genReqs, isLoading, lp>>

NextCalc == ApplyAward

SpecCalc == InitCalc /\ [][NextCalc]_vars

\* ------------------------------------------- one quiz answered correctly
\* user 1 (experience 95 of 100, level 1) has logged in and has just been
\* navigated to a generated three-question quiz, whatever its correct tags
InitE2E ==
  LET u == UserRecord(1, InitialRow)
  IN \E tags \in [1 .. 3 -> {"A", "B", "C", "D"}] :
     LET quiz == [i \in 1 .. 3 |-> [question |-> <<"mcq", 3, i>>, correct_answer |-> tags[i]]]
         nav == [present |-> TRUE, quizData |-> quiz, sessionId |-> 1, language |-> ""]
         q == QuizInitial([k \in Keys |-> Absent], u, nav, 2, 0)
     IN
     /\ route = "/quiz"
     /\ navState = nav
     /\ backEntry = NoBack
     /\ now = 2
     /\ user = u /\ token = 1
     /\ lsUser = u /\ lsToken = 1
     /\ qp = q
     /\ sb = UnmountedSandbox
     /\ store = QuizPersist([k \in Keys |-> Absent], u, q)
     /\ serverUsers = [x \in UserIds |-> InitialRow]
     /\ awardReqs = <<>>
     /\ awardResps = <<>>
     /\ calc = [e |-> 0, r |-> 1, level |-> 1, a |-> 0, out |-> NoResult]
     /\ pp = PromptInitial
     /\ genReqs = <<>>
     /\ isLoading = FALSE
     /\ lp = LoginInitial

\* the user picks the option whose letter is the question's correct tag
AnswerCorrectly ==
  \E index \in Ordinals :
    /\ qp.currentIndex + 1 \in DOMAIN qp.quiz
    /\ LetterFromIndex(index) = qp.quiz[qp.currentIndex + 1].correct_answer
    /\ handleAnswerCapped(index, [xp |-> 3 * XP_PER_CORRECT, awards |-> 3,
                                  inFlight |-> MaxInFlight])

NextE2E ==
  \/ AnswerCorrectly
  \/ \E i \in 0 .. 2 : FeedbackTimer(i)
  \/ \E k \in 1 .. MaxInFlight : ServerAddXp(k)
  \/ \E k \in 1 .. MaxInFlight : AwardResponse(k)

SpecE2E == InitE2E /\ [][NextE2E]_vars

\* -------------------------------------------------- the runner on its own
\* a generated quiz of up to MaxRun questions, whatever its correct tags, has
\* just been mounted: for the logged-in user 1, or with no user after a
\* reload of the quiz route
RunTags == {"A", "B", "C", "D", "E"}

InitRun ==
  \E n \in 1 .. MaxRun, u \in {NoUser, UserRecord(1, InitialRow)} :
  \E tags \in [1 .. n -> RunTags] :
     LET quiz == [i \in 1 .. n |-> [question |-> <<"mcq", n, i>>, correct_answer |-> tags[i]]]
         nav == [present |-> TRUE, quizData |-> quiz, sessionId |-> 1, language |-> ""]
         q == QuizInitial([k \in Keys |-> Absent], u, nav, 2, 0)
     IN
     /\ route = "/quiz"
     /\ navState = nav
     /\ backEntry = NoBack
     /\ now = 2
     /\ user = u /\ token = u.id
     /\ lsUser = u /\ lsToken = u.id
     /\ qp = q
     /\ sb = UnmountedSandbox
     /\ store = QuizPersist([k \in Keys |-> Absent], u, q)
     /\ serverUsers = [x \in UserIds |-> InitialRow]
     /\ awardReqs = <<>>
     /\ awardResps = <<>>
     /\ calc = [e |-> 0, r |-> 1, level |-> 1, a |-> 0, out |-> NoResult]
     /\ pp = PromptInitial
     /\ genReqs = <<>>
     /\ isLoading = FALSE
     /\ lp = LoginInitial

\* a quiz on its own is capped by its length
RunCaps == [xp |-> MaxRun * XP_PER_CORRECT, awards |-> MaxRun, inFlight |-> MaxInFlight]

SelectOption == \E index \in Ordinals : handleAnswerCapped(index, RunCaps)
TimerFires == \E i \in 0 .. MaxRun : FeedbackTimer(i)

NextRun ==
  \/ SelectOption
  \/ TimerFires
  \/ \E k \in 1 .. MaxInFlight : ServerAddXp(k)
  \/ \E k \in 1 .. MaxInFlight : AwardFails(k)
  \/ \E k \in 1 .. MaxInFlight : AwardResponse(k)

SpecRun == InitRun /\ [][NextRun]_vars

\* the user keeps answering and the browser runs the timers it armed; the
\* network owes nothing
SpecRunFair == SpecRun /\ WF_vars(SelectOption) /\ WF_vars(TimerFires)

\* ------------------------------------------- mounting over what is stored
\* User 1 is logged in on the prompt page.  Each of the two keys holds
\* nothing, a string that does not parse (sessionStorage is open to the
\* developer tools and to every script of the origin), or the record of a
\* session left unfinished or finished; the Back button leads to nothing or
\* to a quiz-view history entry, with or without generated data.
StoredQuizValues ==
  {Absent, Malformed,
   JsonStringify([sessionId |-> 1, quiz |-> McqQuiz(MaxQuestions), currentIndex |-> 1,
                  finished |-> FALSE, totalXpEarned |-> 0]),
   JsonStringify([sessionId |-> 1, quiz |-> McqQuiz(MaxQuestions), currentIndex |-> 1,
                  finished |-> TRUE, totalXpEarned |-> XP_PER_CORRECT])}

StoredCodeValues ==
  {Absent, Malformed,
   JsonStringify([sessionId |-> 2, questions |-> CodingQuiz(MaxQuestions),
                  language |-> "python", currentIndex |-> 1, code |-> "typed",
                  finished |-> FALSE]),
   JsonStringify([sessionId |-> 2, questions |-> CodingQuiz(MaxQuestions),
                  language |-> "python", currentIndex |-> 1, code |-> "typed",
                  finished |-> TRUE])}

HistoryEntries ==
  {NoBack,
   [route |-> "/quiz", state |-> NoNav],
   [route |-> "/quiz",
    state |-> [present |-> TRUE, quizData |-> McqQuiz(MaxQuestions), sessionId |-> 1,
               language |-> ""]],
   [route |-> "/code-sandbox", state |-> NoNav],
   [route |-> "/code-sandbox",
    state |-> [present |-> TRUE, quizData |-> CodingQuiz(MaxQuestions), sessionId |-> 2,
               language |-> "python"]]}

InitStored ==
  LET u == UserRecord(1, InitialRow)
  IN /\ route = "/prompt"
     /\ navState = NoNav
     /\ backEntry \in HistoryEntries
     /\ now = 3
     /\ user = u /\ token = 1
     /\ lsUser = u /\ lsToken = 1
     /\ \E mcq \in StoredQuizValues, code \in StoredCodeValues :
          store = [k \in Keys |-> IF k[1] = QuizFeature THEN mcq ELSE code]
     /\ qp = UnmountedQuiz
     /\ sb = UnmountedSandbox
     /\ serverUsers = [x \in UserIds |-> InitialRow]
     /\ awardReqs = <<>>
     /\ awardResps = <<>>
     /\ calc = [e |-> 0, r |-> 1, level |-> 1, a |-> 0, out |-> NoResult]
     /\ pp = PromptInitial
     /\ genReqs = <<>>
     /\ isLoading = FALSE
     /\ lp = LoginInitial

NextStored ==
  \/ \E path \in {"/", "/login", "/prompt"} : NavigateTo(path)
  \/ handleQuizClick
  \/ ResumeFromBanner
  \/ Discard
  \/ GoBack
  \/ \E uid \in UserIds : Login(uid)
  \/ Logout
  \/ handleQuitQuiz
  \/ SandboxBack

SpecStored == InitStored /\ [][NextStored]_vars

\* ----------------------------------------------- the prompt form on its own
\* user 1 is logged in on the prompt page, whose form is as mounted
InitPrompt ==
  LET u == UserRecord(1, InitialRow)
  IN /\ route = "/prompt"
     /\ navState = NoNav
     /\ backEntry = NoBack
     /\ now = 1
     /\ user = u /\ token = 1
     /\ lsUser = u /\ lsToken = 1
     /\ store = [k \in Keys |-> Absent]
     /\ qp = UnmountedQuiz
     /\ sb = UnmountedSandbox
     /\ serverUsers = [x \in UserIds |-> InitialRow]
     /\ awardReqs = <<>>
     /\ awardResps = <<>>
     /\ calc = [e |-> 0, r |-> 1, level |-> 1, a |-> 0, out |-> NoResult]
     /\ pp = PromptInitial
     /\ genReqs = <<>>
     /\ isLoading = FALSE
     /\ lp = LoginInitial

NextPrompt ==
  \/ \E kind \in QuizTypes : setQuizType(kind)
  \/ \E model \in Models : handleModelChange(model)
  \/ \E lang \in Languages : setSelectedLanguage(lang)
  \/ \E delta \in {-1, 1} : setNumQuestions(delta)
  \/ \E text \in PromptTexts : setPrompt(text)
  \/ PromptPageHandleSubmit
  \/ \E k \in 1 .. MaxGen, n \in 1 .. MaxQuestions : GenerateResponds(k, n)
  \/ \E k \in 1 .. MaxGen : GenerateFails(k)
  \/ \E path \in {"/", "/prompt"} : NavigateTo(path)

SpecPrompt == InitPrompt /\ [][NextPrompt]_vars

\* ------------------------------------------------- two accounts in one tab
\* Nobody is logged in on the landing page of a tab that two accounts use
\* in turn.  Account u asks for quizzes of u questions, so a stored record
\* tells which account generated its session.
TabUsers == {1, 2}

InitUsers ==
  /\ route = "/"
  /\ navState = NoNav
  /\ backEntry = NoBack
  /\ now = 1
  /\ user = NoUser /\ token = 0
  /\ lsUser = NoUser /\ lsToken = 0
  /\ store = [k \in Features \X TabUsers |-> Absent]
  /\ qp = UnmountedQuiz
  /\ sb = UnmountedSandbox
  /\ serverUsers = [u \in TabUsers |-> InitialRow]
  /\ awardReqs = <<>>
  /\ awardResps = <<>>
  /\ calc = [e |-> 0, r |-> 1, level |-> 1, a |-> 0, out |-> NoResult]
  /\ pp = PromptInitial
  /\ genReqs = <<>>
  /\ isLoading = FALSE
  /\ lp = LoginInitial

NextUsers ==
  \/ \E path \in {"/", "/login", "/prompt"} : NavigateTo(path)
  \/ \E uid \in TabUsers : Login(uid)
  \/ Logout
  \/ handleQuizClick
  \/ \E n \in TabUsers : token = n /\ GenerateQuiz("mcq", n, "")
  \/ \E n \in TabUsers, lang \in Languages : token = n /\ GenerateQuiz("coding", n, lang)
  \/ \E index \in Ordinals : handleAnswer(index)
  \/ \E i \in 0 .. MaxQuestions : FeedbackTimer(i)
  \/ StaleFeedbackTimer
  \/ handleQuitQuiz
  \/ \E text \in CodeTexts : EditCode(text)
  \/ \E k \in 1 .. MaxInFlight : ServerAddXp(k)
  \/ \E k \in 1 .. MaxInFlight : AwardResponse(k)

SpecUsers == InitUsers /\ [][NextUsers]_vars

\* ------------------------------------------------- hints of the MCQ view
\* what a hint request can end in: a body with a list of hints, a body with
\* an empty list, a body that parses but has no `hints` member (an error
\* status answered in JSON), or a rejection (no connection, unparsable body)
HintOutcomes == {"hints", "empty", "no member", "rejects"}

\* the hint button: hides the hints shown, or calls fetchMcqHint for the
\* question on screen (up to the fetch)
HintClick ==
  /\ route = "/quiz" /\ qp.mounted
  /\ Len(qp.quiz) > 0 /\ ~qp.finished /\ ~qp.answered
  /\ qp.currentIndex + 1 \in DOMAIN qp.quiz
  /\ IF Len(qp.hints) > 0
     THEN qp' = [qp EXCEPT !.pristine = FALSE, !.hints = <<>>]
     ELSE /\ Len(qp.hintReqs) < MaxHints
          /\ qp' = [qp EXCEPT !.pristine = FALSE, !.hintLoading = TRUE,
                              !.hintReqs = Append(@, qp.currentIndex)]
  /\ UNCHANGED <<route, navState, backEntry, now, user, token, lsUser, lsToken,
                 store, sb, serverUsers, awardReqs, awardResps, calc, pp, genReqs, isLoading, lp>>

\* fetchMcqHint from the fetch on.  A list of hints is written as the list
\* of the questions it was fetched for.  A rejection ends the function at
\* its await; setHints(undefined) makes the next render throw at
\* hints.length, which takes the view down.
HintResponds(k, outcome) ==
  /\ qp.mounted /\ k \in DOMAIN qp.hintReqs
  /\ outcome \in HintOutcomes
  /\ qp' = CASE outcome = "rejects" ->
                 [qp EXCEPT !.pristine = FALSE, !.hintReqs = RemoveAt(@, k),
                            !.hintRejected = TRUE]
            [] outcome = "no member" ->
                 [UnmountQuiz(qp) EXCEPT !.crashed = TRUE]
            [] OTHER ->
                 [qp EXCEPT !.pristine = FALSE, !.hintReqs = RemoveAt(@, k),
                            !.hintLoading = FALSE,
                            !.hints = IF outcome = "hints" THEN <<qp.hintReqs[k]>> ELSE <<>>]
  /\ UNCHANGED <<route, navState, backEntry, now, user, token, lsUser, lsToken,
                 store, sb, serverUsers, awardReqs, awardResps, calc, pp, genReqs, isLoading, lp>>

NextHint ==
  \/ NextRun
  \/ HintClick
  \/ \E k \in 1 .. MaxHints, outcome \in HintOutcomes : HintResponds(k, outcome)

SpecHint == InitRun /\ [][NextHint]_vars

\* ------------------------------------------------- the question count
\* the form with the + button pressed as far as it goes
NextCount ==
  \/ \E kind \in QuizTypes : setQuizType(kind)
  \/ \E model \in Models : handleModelChange(model)
  \/ \E lang \in Languages : setSelectedLanguage(lang)
  \/ \E delta \in {-1, 1} : setNumQuestionsCapped(delta, CountLimit("mcq"))
  \/ setPrompt("arrays")
  \/ PromptPageHandleSubmit
  \/ \E k \in 1 .. MaxGen : GenerateFails(k)

SpecCount == InitPrompt /\ [][NextCount]_vars

\* ------------------------------------------------- the page being loaded
\* The browser opens the application on one of its routes: the components
\* hold their useState initial values (no user, no token, isLoading true)
\* and no effect has run.  localStorage holds whatever an earlier page life
\* or the developer tools left there, sessionStorage any of the stored
\* values, and the history entry may carry generated data.
LocalUsers == {NoUser, UserRecord(1, InitialRow)}
LocalTokens == {0, 1}

InitBoot ==
  /\ \E h \in HistoryEntries :
       IF h = NoBack
       THEN route \in {"/", "/prompt"} /\ navState = NoNav
       ELSE route = h.route /\ navState = h.state
  /\ backEntry = NoBack
  /\ now = 3
  /\ user = NoUser /\ token = 0
  /\ lsUser \in LocalUsers /\ lsToken \in LocalTokens
  /\ \E mcq \in StoredQuizValues, code \in StoredCodeValues :
       store = [k \in Keys |-> IF k[1] = QuizFeature THEN mcq ELSE code]
  /\ qp = UnmountedQuiz
  /\ sb = UnmountedSandbox
  /\ serverUsers = [x \in UserIds |-> InitialRow]
  /\ awardReqs = <<>>
  /\ awardResps = <<>>
  /\ calc = [e |-> 0, r |-> 1, level |-> 1, a |-> 0, out |-> NoResult]
  /\ pp = PromptInitial
  /\ genReqs = <<>>
  /\ isLoading = TRUE
  /\ lp = LoginInitial

\* the load completes (and may be repeated); after it the user moves about,
\* logs in and out
NextBoot ==
  \/ Reload
  \/ ~isLoading /\ \E path \in {"/", "/login", "/prompt"} : NavigateTo(path)
  \/ ~isLoading /\ \E uid \in UserIds : Login(uid)
  \/ ~isLoading /\ Logout
  \/ ~isLoading /\ handleQuizClick

SpecBoot == InitBoot /\ [][NextBoot]_vars

\* ------------------------------------------------- logging in
\* what a login request can end in besides 200: an error status whose body
\* has a detail, one whose body has none, one whose body does not parse, or
\* a rejected fetch
LoginFailures == {"detail", "no detail", "unparsable", "network"}

\* the `detail` of the service's rejection
RejectionDetail == "Invalid email or password"

\* the value login() returns for a failure
LoginFailureValue(outcome) ==
  [success |-> FALSE,
   error |-> CASE outcome = "detail" -> RejectionDetail
               [] outcome = "no detail" -> "Login failed"
               [] OTHER -> "Network error. Please try again."]

\* variant: the token is stored before the status is looked at
LoginFailsKeepsToken(outcome) ==
  /\ route = "/login"
  /\ outcome \in LoginFailures
  /\ lp' = [lp EXCEPT !.error = LoginFailureValue(outcome).error]
  /\ token' = 1 /\ lsToken' = 1
  /\ UNCHANGED <<route, navState, backEntry, now, user, lsUser,
                 store, qp, sb, serverUsers, awardReqs, awardResps, calc, pp, genReqs,
                 isLoading>>

\* handleLoginSubmit with both fields filled, the login failing
LoginFails(outcome) ==
  /\ route = "/login"
  /\ outcome \in LoginFailures
  /\ LET result == LoginFailureValue(outcome)
     IN lp' = [lp EXCEPT !.error = IF result.error # "" THEN result.error ELSE "Login failed"]
  /\ UNCHANGED <<route, navState, backEntry, now, user, token, lsUser, lsToken,
                 store, qp, sb, serverUsers, awardReqs, awardResps, calc, pp, genReqs,
                 isLoading>>

\* handleLoginSubmit with an empty field
LoginSubmitEmpty ==
  /\ route = "/login"
  /\ lp' = [lp EXCEPT !.error = "Please fill in all fields"]
  /\ UNCHANGED <<route, navState, backEntry, now, user, token, lsUser, lsToken,
                 store, qp, sb, serverUsers, awardReqs, awardResps, calc, pp, genReqs,
                 isLoading>>

\* two accounts use the tab in turn, with failed attempts in between
NextLogin ==
  \/ \E path \in {"/", "/login", "/prompt"} : NavigateTo(path)
  \/ \E uid \in TabUsers : Login(uid)
  \/ \E outcome \in LoginFailures : LoginFails(outcome)
  \/ LoginSubmitEmpty
  \/ Logout
  \/ handleQuizClick
  \/ \E n \in TabUsers : token = n /\ GenerateQuiz("mcq", n, "")
  \/ handleQuitQuiz

SpecLogin == InitUsers /\ [][NextLogin]_vars

\* ------------------------------------------------- generating by button
\* requests in flight at once when the form is left and opened again
MaxOverlap == 2

\* a click on the Generate button, which fires only while it is enabled
GenerateClick == ~GenerateDisabled(pp) /\ PromptPageHandleSubmitCapped(MaxOverlap)

NextGen ==
  \/ \E kind \in QuizTypes : setQuizType(kind)
  \/ \E model \in Models : handleModelChange(model)
  \/ \E lang \in Languages : setSelectedLanguage(lang)
  \/ setPrompt("arrays")
  \/ GenerateClick
  \/ \E k \in 1 .. MaxOverlap, n \in 1 .. MaxQuestions : GenerateResponds(k, n)
  \/ \E k \in 1 .. MaxOverlap : GenerateFails(k)
  \/ \E path \in {"/", "/prompt"} : NavigateTo(path)

SpecGen == InitPrompt /\ [][NextGen]_vars

\* ------------------------------------------------- the sandbox on its own
\* a signed-in user has just been handed a set of 1 .. MaxChallenges coding
\* challenges; up to MaxPending auto-advance timers may be pending at once
InitSandbox ==
  \E n \in 1 .. MaxChallenges :
     LET u == UserRecord(1, InitialRow)
         nav == [present |-> TRUE, quizData |-> CodingQuiz(n), sessionId |-> 1,
                 language |-> "python"]
         c == CodeInitial([k \in Keys |-> Absent], u, nav, 2, 0)
     IN
     /\ route = "/code-sandbox"
     /\ navState = nav
     /\ backEntry = NoBack
     /\ now = 2
     /\ user = u /\ token = u.id
     /\ lsUser = u /\ lsToken = u.id
     /\ qp = UnmountedQuiz
     /\ sb = c
     /\ store = CodePersist([k \in Keys |-> Absent], u, c)
     /\ serverUsers = [x \in UserIds |-> InitialRow]
     /\ awardReqs = <<>>
     /\ awardResps = <<>>
     /\ calc = [e |-> 0, r |-> 1, level |-> 1, a |-> 0, out |-> NoResult]
     /\ pp = PromptInitial
     /\ genReqs = <<>>
     /\ isLoading = FALSE
     /\ lp = LoginInitial

Outcomes == {"success", "failed", "error"}

NextSandbox ==
  \/ \E text \in CodeTexts : EditCode(text)
  \/ handleRunCode
  \/ \E outcome \in Outcomes : RunResult(outcome)
  \/ handleSubmitCapped(MaxPending)
  \/ \E outcome \in Outcomes : SubmitResult(outcome)
  \/ \E k \in 1 .. MaxPending : handleNextQuestion(k)

SpecSandbox == InitSandbox /\ [][NextSandbox]_vars

\* ------------------------------------------------- questions beyond A..D
\* tags a generated question may carry besides the four letters of the list
CeilingTags == {"A", "D", "E", "a"}
OptionOrdinals == 0 .. MaxOrdinal

\* a quiz of 1 .. MaxRun questions, each with MaxOrdinal + 1 options
InitCeiling ==
  \E n \in 1 .. MaxRun, u \in {NoUser, UserRecord(1, InitialRow)} :
  \E tags \in [1 .. n -> CeilingTags] :
     LET quiz == [i \in 1 .. n |-> [question |-> <<"mcq", n, i>>, correct_answer |-> tags[i]]]
         nav == [present |-> TRUE, quizData |-> quiz, sessionId |-> 1, language |-> ""]
         q == QuizInitial([k \in Keys |-> Absent], u, nav, 2, 0)
     IN
     /\ route = "/quiz"
     /\ navState = nav
     /\ backEntry = NoBack
     /\ now = 2
     /\ user = u /\ token = u.id
     /\ lsUser = u /\ lsToken = u.id
     /\ qp = q
     /\ sb = UnmountedSandbox
     /\ store = QuizPersist([k \in Keys |-> Absent], u, q)
     /\ serverUsers = [x \in UserIds |-> InitialRow]
     /\ awardReqs = <<>>
     /\ awardResps = <<>>
     /\ calc = [e |-> 0, r |-> 1, level |-> 1, a |-> 0, out |-> NoResult]
     /\ pp = PromptInitial
     /\ genReqs = <<>>
     /\ isLoading = FALSE
     /\ lp = LoginInitial

SelectAnyOption == \E index \in OptionOrdinals : handleAnswerCapped(index, RunCaps)

NextCeiling ==
  \/ SelectAnyOption
  \/ TimerFires
  \/ \E k \in 1 .. MaxInFlight : ServerAddXp(k)
  \/ \E k \in 1 .. MaxInFlight : AwardFails(k)
  \/ \E k \in 1 .. MaxInFlight : AwardResponse(k)

\* the user keeps answering and the 2000 ms timers run out
SpecCeiling ==
  InitCeiling /\ [][NextCeiling]_vars /\ WF_vars(SelectAnyOption) /\ WF_vars(TimerFires)

\* ------------------------------------------------- several awards at once
\* a quiz whose award requests may overlap: the service is slower than the
\* 2000 ms between two answers
OverlapCaps == [xp |-> MaxRun * XP_PER_CORRECT, awards |-> MaxRun, inFlight |-> MaxOutstanding]

SelectOptionOverlapping == \E index \in Ordinals : handleAnswerCapped(index, OverlapCaps)

\* every request is answered with 200, the responses arrive in any order
NextConverge ==
  \/ SelectOptionOverlapping
  \/ TimerFires
  \/ \E k \in 1 .. MaxOutstanding : ServerAddXp(k)
  \/ \E k \in 1 .. MaxOutstanding : AwardResponse(k)

SpecConverge == InitRun /\ [][NextConverge]_vars

\* ====================================================== properties checked
\* a step that mounts the view: first mount, or a new instance after a reload
QuizMountStep == qp'.mounted /\ (~qp.mounted \/ qp'.instance # qp.instance)
CodeMountStep == sb'.mounted /\ (~sb.mounted \/ sb'.instance # sb.instance)

\* a step within the life of one mounted view
QuizSameView == qp.mounted /\ qp'.mounted /\ qp'.instance = qp.instance
CodeSameView == sb.mounted /\ sb'.mounted /\ sb'.instance = sb.instance

HasIncoming(nav) == nav.present /\ Len(nav.quizData) > 0

\* the stored string is missing, or holds a record of another session
StoredOtherThan(raw, sid) ==
  raw.raw = "absent" \/ (raw.raw = "json" /\ raw.value.sessionId # sid)

\* C1: a view mounted for a logged-in user with non-empty incoming data whose
\* session id differs from the stored one (or with nothing stored) starts from
\* the incoming data: incoming question list, index 0, not finished, zero XP.
C1_FreshFromIncoming ==
  [][ /\ ( /\ QuizMountStep /\ user'.id # 0 /\ HasIncoming(navState')
           /\ StoredOtherThan(store[quizSessionKey(user'.id)], navState'.sessionId) )
         => /\ qp'.quiz = navState'.quizData
            /\ qp'.sessionId = navState'.sessionId
            /\ qp'.currentIndex = 0
            /\ qp'.finished = FALSE
            /\ qp'.totalXpEarned = 0
      /\ ( /\ CodeMountStep /\ user'.id # 0 /\ HasIncoming(navState')
           /\ StoredOtherThan(store[codeSessionKey(user'.id)], navState'.sessionId) )
         => /\ sb'.questions = navState'.quizData
            /\ sb'.sessionId = navState'.sessionId
            /\ sb'.currentIndex = 0
            /\ sb'.finished = FALSE
    ]_vars

\* a second session has been mounted fresh over the record of the first,
\* which had progress when its view was left
C1_Witness ==
  /\ qp.mounted /\ user.id # 0
  /\ navState.present /\ navState.sessionId = 2 /\ qp.sessionId = 2
  /\ qp.pristine /\ qp.currentIndex = 0 /\ qp.totalXpEarned = 0
  /\ qp.over = 1

\* C2: a view mounted with incoming data whose session id equals the stored
\* one takes index, finished flag and XP (sandbox: index, finished, code)
\* from the stored record, not the fresh defaults.
C2_SameIdKeepsStored ==
  [][ /\ ( /\ QuizMountStep /\ user'.id # 0 /\ HasIncoming(navState')
           /\ store[quizSessionKey(user'.id)].raw = "json"
           /\ store[quizSessionKey(user'.id)].value.sessionId = navState'.sessionId )
         => /\ qp'.currentIndex = store[quizSessionKey(user'.id)].value.currentIndex
            /\ qp'.finished = store[quizSessionKey(user'.id)].value.finished
            /\ qp'.totalXpEarned = store[quizSessionKey(user'.id)].value.totalXpEarned
      /\ ( /\ CodeMountStep /\ user'.id # 0 /\ HasIncoming(navState')
           /\ store[codeSessionKey(user'.id)].raw = "json"
           /\ store[codeSessionKey(user'.id)].value.sessionId = navState'.sessionId )
         => /\ sb'.currentIndex = store[codeSessionKey(user'.id)].value.currentIndex
            /\ sb'.finished = store[codeSessionKey(user'.id)].value.finished
            /\ sb'.code = store[codeSessionKey(user'.id)].value.code
    ]_vars

\* the view has just been mounted with incoming data of the stored session
\* and shows the stored position instead of the first question
C2_Witness ==
  /\ qp.mounted /\ qp.pristine /\ user.id # 0
  /\ HasIncoming(navState)
  /\ qp.sessionId = navState.sessionId
  /\ qp.currentIndex = 1 /\ qp.totalXpEarned = 10

\* C3: a view mounted with no incoming data and a stored record resumes it
\* verbatim: session id, question list, index, finished flag, XP (and for
\* the sandbox language and code).
C3_PureResume ==
  [][ /\ ( /\ QuizMountStep /\ user'.id # 0 /\ ~navState'.present
           /\ store[quizSessionKey(user'.id)].raw = "json" )
         => QuizRecord(qp') = store[quizSessionKey(user'.id)].value
      /\ ( /\ CodeMountStep /\ user'.id # 0 /\ ~navState'.present
           /\ store[codeSessionKey(user'.id)].raw = "json" )
         => CodeRecord(sb') = store[codeSessionKey(user'.id)].value
    ]_vars

\* the sandbox has just been mounted without navigation data and resumes
\* its second challenge with the text typed before
C3_Witness ==
  /\ sb.mounted /\ sb.pristine /\ user.id # 0 /\ ~navState.present
  /\ sb.currentIndex = 1 /\ sb.code = "typed"

\* C4: a reload in the middle of a quiz (boot of the application, then the
\* quiz view mounted again on the same history entry) yields the index and
\* the accumulated XP the runner had before the reload.
C4_ReloadKeepsPosition ==
  [][ ( /\ qp.mounted /\ user.id # 0 /\ token # 0
        /\ Len(qp.quiz) > 0 /\ ~qp.finished
        /\ qp'.mounted /\ qp'.instance # qp.instance )
      => /\ qp'.currentIndex = qp.currentIndex
         /\ qp'.totalXpEarned = qp.totalXpEarned
    ]_vars

\* C5: while a view is mounted for a logged-in user with a non-empty question
\* list, after every runner transition (index, finished, XP, code changed)
\* the record stored under that user's key equals the in-memory session.
C5_PersistedAfterTransition ==
  [][ /\ ( /\ QuizSameView /\ QuizRecord(qp') # QuizRecord(qp)
           /\ user'.id # 0 /\ Len(qp'.quiz) > 0 )
         => /\ store'[quizSessionKey(user'.id)].raw = "json"
            /\ store'[quizSessionKey(user'.id)].value =
                 [sessionId |-> qp'.sessionId, quiz |-> qp'.quiz,
                  currentIndex |-> qp'.currentIndex, finished |-> qp'.finished,
                  totalXpEarned |-> qp'.totalXpEarned]
      /\ ( /\ CodeSameView /\ CodeRecord(sb') # CodeRecord(sb)
           /\ user'.id # 0 /\ Len(sb'.questions) > 0 )
         => /\ store'[codeSessionKey(user'.id)].raw = "json"
            /\ store'[codeSessionKey(user'.id)].value =
                 [sessionId |-> sb'.sessionId, questions |-> sb'.questions,
                  language |-> sb'.language, currentIndex |-> sb'.currentIndex,
                  code |-> sb'.code, finished |-> sb'.finished]
    ]_vars

\* a correct answer has just been given in this view and the stored record
\* already carries its XP
C5_Witness ==
  /\ qp.mounted /\ user.id # 0
  /\ qp.answered /\ qp.timers # {} /\ qp.feedbackMessage = "Correct!"
  /\ qp.currentIndex = 1 /\ qp.totalXpEarned = 10
  /\ store[quizSessionKey(user.id)].raw = "json"
  /\ store[quizSessionKey(user.id)].value.totalXpEarned = 10
  /\ store[quizSessionKey(user.id)].value.currentIndex = 1

\* C6: the store holds one record per (user, feature) key, and a fresh quiz
\* supersedes it: after a mount with incoming data whose session id differs
\* from the stored one the record is that of the new session at its start
\* (index 0, not finished, zero XP, the new question list).
C6_FreshSupersedesStored ==
  [][ /\ ( /\ QuizMountStep /\ user'.id # 0 /\ HasIncoming(navState')
           /\ store[quizSessionKey(user'.id)].raw = "json"
           /\ store[quizSessionKey(user'.id)].value.sessionId # navState'.sessionId )
         => /\ store'[quizSessionKey(user'.id)].raw = "json"
            /\ store'[quizSessionKey(user'.id)].value =
                 [sessionId |-> navState'.sessionId, quiz |-> navState'.quizData,
                  currentIndex |-> 0, finished |-> FALSE, totalXpEarned |-> 0]
      /\ ( /\ CodeMountStep /\ user'.id # 0 /\ HasIncoming(navState')
           /\ store[codeSessionKey(user'.id)].raw = "json"
           /\ store[codeSessionKey(user'.id)].value.sessionId # navState'.sessionId )
         => /\ store'[codeSessionKey(user'.id)].raw = "json"
            /\ store'[codeSessionKey(user'.id)].value =
                 [sessionId |-> navState'.sessionId, questions |-> navState'.quizData,
                  language |-> navState'.language, currentIndex |-> 0,
                  code |-> StarterOrStub(navState'.quizData, 0, navState'.language),
                  finished |-> FALSE]
    ]_vars

\* the sandbox has just been mounted on a second session over the stored
\* record of the first, and the store holds the second session at its start
C6_Witness ==
  /\ sb.mounted /\ sb.pristine /\ user.id # 0
  /\ sb.over = 1 /\ sb.sessionId = 2
  /\ store[codeSessionKey(user.id)].raw = "json"
  /\ store[codeSessionKey(user.id)].value.sessionId = 2
  /\ store[codeSessionKey(user.id)].value.currentIndex = 0
  /\ Len(store[codeSessionKey(user.id)].value.questions) = 1

\* C7: the reconciliation is evaluated once: during the life of a mounted
\* view its session id and question list never change, and index, finished
\* flag and XP (sandbox: index, finished) change only by a runner transition.
C7_EvaluatedOnceAtMount ==
  [][ /\ QuizSameView
         => /\ qp'.sessionId = qp.sessionId
            /\ qp'.quiz = qp.quiz
            /\ ( \/ qp'.currentIndex # qp.currentIndex
                 \/ qp'.finished # qp.finished
                 \/ qp'.totalXpEarned # qp.totalXpEarned )
               => ( \/ \E index \in Ordinals : handleAnswer(index)
                    \/ \E i \in 0 .. MaxQuestions : FeedbackTimer(i) )
      /\ CodeSameView
         => /\ sb'.sessionId = sb.sessionId
            /\ sb'.questions = sb.questions
            /\ sb'.language = sb.language
            /\ (sb'.currentIndex # sb.currentIndex \/ sb'.finished # sb.finished)
               => \E k \in 1 .. MaxTimers : handleNextQuestion(k)
    ]_vars

\* a view that started fresh from incoming data is still on its second
\* question after the navigation state was replaced by none and the cached
\* user was replaced by an award response
C7_Witness ==
  /\ qp.mounted /\ ~qp.pristine /\ qp.over = 0
  /\ ~navState.present
  /\ qp.currentIndex = 1 /\ ~qp.answered
  /\ user.id # 0 /\ user.level = 2

\* C8: an award that leaves the experience below the requirement (e + a < r)
\* yields experience e + a, the same level and no level-up.
C8_AwardBelowRequirement ==
  (calc.out # NoResult /\ calc.e + calc.a < calc.r)
    => /\ calc.out.exp = calc.e + calc.a
       /\ calc.out.level = calc.level
       /\ calc.out.leveled_up = FALSE

\* a positive award was applied one point short of the requirement
C8_Witness ==
  /\ calc.out # NoResult
  /\ calc.a > 0 /\ calc.e > 0 /\ calc.e + calc.a = calc.r - 1

\* C9: an award that reaches the requirement (e + a >= r) raises the level by
\* exactly 1, even across several thresholds, leaves experience e + a - r and
\* reports a level-up.
C9_AwardReachingRequirement ==
  (calc.out # NoResult /\ calc.e + calc.a >= calc.r)
    => /\ calc.out.level = calc.level + 1
       /\ calc.out.exp = calc.e + calc.a - calc.r
       /\ calc.out.leveled_up = TRUE

\* an award crossing at least two thresholds was applied
C9_Witness ==
  /\ calc.out # NoResult
  /\ calc.e + calc.a >= 2 * calc.r /\ calc.e < calc.r
  /\ calc.out.level = calc.level + 1

\* C10: a three-question quiz answered correctly throughout by a user who
\* started at experience 95 of 100, level 1, ends with 30 XP accumulated in
\* the session and, once every award request was served, with the user at
\* level 2 and experience 25.
C10_ThreeCorrectAnswers ==
  qp.finished
    => /\ qp.totalXpEarned = 30
       /\ awardReqs = <<>> => serverUsers[1] = [exp |-> 25, level |-> 2, xp_required |-> 100]

\* the quiz is finished, every award was served and its response delivered
C10_Witness ==
  /\ qp.finished /\ qp.totalXpEarned = 30
  /\ awardReqs = <<>> /\ awardResps = <<>>
  /\ serverUsers[1].level = 2 /\ user.level = 2 /\ user.exp = 25

\* the letter of an option ordinal, as the claims state it
LetterOfOrdinal(o) == CASE o = 0 -> "A" [] o = 1 -> "B" [] o = 2 -> "C" [] o = 3 -> "D"

\* the correct tag of the question the runner is on
CurrentTag == qp.quiz[qp.currentIndex + 1].correct_answer

\* a step in which the mounted view accepts a selection
AnswerStep == QuizSameView /\ ~qp.answered /\ qp'.answered

\* a step in which the feedback timer of the mounted view fires
TimerStep == QuizSameView /\ qp.timers # {} /\ qp'.timers = {}

\* C11: for a question whose correct tag is one of A..D and any selected
\* ordinal 0..3, handleAnswer enters correct feedback exactly when the letter
\* of the ordinal equals the tag and incorrect feedback otherwise; the
\* recorded correct-answer index is the ordinal of the tag in both cases.
C11_AnswerEvaluation ==
  [][ (AnswerStep /\ CurrentTag \in {"A", "B", "C", "D"})
      => /\ qp'.selectedAnswer \in 0 .. 3
         /\ IF LetterOfOrdinal(qp'.selectedAnswer) = CurrentTag
            THEN qp'.feedbackMessage = "Correct!"
            ELSE qp'.feedbackMessage =
                   "Incorrect! The correct answer was " \o CurrentTag \o "."
         /\ qp'.correctAnswerIndex \in 0 .. 3
         /\ LetterOfOrdinal(qp'.correctAnswerIndex) = CurrentTag
    ]_vars

\* option A was selected where the tag is C: incorrect feedback, and the
\* recorded correct index is ordinal 2
C11_Witness ==
  /\ qp.mounted /\ qp.answered
  /\ qp.quiz[qp.currentIndex + 1].correct_answer = "C"
  /\ qp.selectedAnswer = 0 /\ qp.correctAnswerIndex = 2
  /\ qp.feedbackMessage = "Incorrect! The correct answer was C."

\* C12: a selection moves the runner from Answering(i) to Feedback(i); in
\* Feedback(i) nothing is accepted (selection, XP, accepted count and award
\* requests stay); the timer moves it to Answering(i+1) or, on the last
\* question, to Finished; a quiz of n questions is finished after exactly n
\* accepted answers, and it does get finished.
C12_RunnerProgression ==
  /\ [][ /\ AnswerStep
            => /\ qp'.currentIndex = qp.currentIndex /\ ~qp'.finished
               /\ qp'.timers = {qp.currentIndex}
               /\ qp'.accepted = qp.accepted + 1
         /\ (QuizSameView /\ qp.answered)
            => /\ qp'.accepted = qp.accepted
               /\ qp'.totalXpEarned = qp.totalXpEarned
               /\ Len(awardReqs') <= Len(awardReqs)
               /\ qp'.answered => qp'.selectedAnswer = qp.selectedAnswer
         /\ TimerStep
            => IF qp.currentIndex + 1 < Len(qp.quiz)
               THEN qp'.currentIndex = qp.currentIndex + 1
                    /\ ~qp'.answered /\ ~qp'.finished
               ELSE qp'.finished /\ qp'.currentIndex = qp.currentIndex
       ]_vars
  /\ [](qp.finished => qp.accepted = Len(qp.quiz))
  /\ <>(qp.finished)

\* a two-question quiz is finished after two accepted answers
C12_Witness ==
  /\ qp.mounted /\ qp.finished
  /\ Len(qp.quiz) = 2 /\ qp.accepted = 2 /\ qp.currentIndex = 1

\* C13: once the finished flag of a session is true, its index, finished flag
\* and XP never change again: whatever happens while the view shows it, and
\* whenever a view is mounted again on that session id, they are the same.
C13_FinishedIsTerminal ==
  [][ /\ (qp.mounted /\ qp.finished /\ qp'.mounted /\ qp'.sessionId = qp.sessionId)
         => /\ qp'.finished
            /\ qp'.currentIndex = qp.currentIndex
            /\ qp'.totalXpEarned = qp.totalXpEarned
      /\ (sb.mounted /\ sb.finished /\ sb'.mounted /\ sb'.sessionId = sb.sessionId)
         => /\ sb'.finished
            /\ sb'.currentIndex = sb.currentIndex
    ]_vars

\* a step in which the mounted view reaches Finished
QuizFinishStep == QuizSameView /\ ~qp.finished /\ qp'.finished
CodeFinishStep == CodeSameView /\ ~sb.finished /\ sb'.finished

\* C14 as stated: once the runner reaches Finished, no record of that
\* (user, feature) pair remains in the session store.
C14_DestroyedOnCompletion ==
  [][ /\ (QuizFinishStep /\ user'.id # 0) => store'[quizSessionKey(user'.id)] = Absent
      /\ (CodeFinishStep /\ user'.id # 0) => store'[codeSessionKey(user'.id)] = Absent
    ]_vars

\* C14 as amended: when the runner of a logged-in user reaches Finished, the
\* record of that (user, feature) pair stays in the store and carries the
\* session id, finished = true and the final index (MCQ: and XP); the quit
\* buttons of the finished view are what removes it.
C14_KeptOnCompletion ==
  [][ /\ (QuizFinishStep /\ user'.id # 0)
         => /\ store'[quizSessionKey(user'.id)].raw = "json"
            /\ store'[quizSessionKey(user'.id)].value.sessionId = qp'.sessionId
            /\ store'[quizSessionKey(user'.id)].value.finished = TRUE
            /\ store'[quizSessionKey(user'.id)].value.currentIndex = qp'.currentIndex
            /\ store'[quizSessionKey(user'.id)].value.totalXpEarned = qp'.totalXpEarned
      /\ (CodeFinishStep /\ user'.id # 0)
         => /\ store'[codeSessionKey(user'.id)].raw = "json"
            /\ store'[codeSessionKey(user'.id)].value.sessionId = sb'.sessionId
            /\ store'[codeSessionKey(user'.id)].value.finished = TRUE
            /\ store'[codeSessionKey(user'.id)].value.currentIndex = sb'.currentIndex
      /\ (qp.mounted /\ qp.finished /\ user.id # 0 /\ handleQuitQuiz)
         => store'[quizSessionKey(user.id)] = Absent
      /\ (sb.mounted /\ sb.finished /\ user.id # 0 /\ SandboxBack)
         => store'[codeSessionKey(user.id)] = Absent
    ]_vars

\* the finished view of a two-question quiz is showing and the store holds
\* its record with the finished flag set
C14_Witness ==
  /\ qp.mounted /\ qp.finished /\ qp.accepted = 2 /\ user.id # 0
  /\ store[quizSessionKey(user.id)].raw = "json"
  /\ store[quizSessionKey(user.id)].value.finished
  /\ store[quizSessionKey(user.id)].value.sessionId = qp.sessionId

\* C15: the quit button of the MCQ view, the back buttons of the sandbox and
\* the Discard buttons of the banner leave no record of that (user, feature)
\* pair, and as long as the view is not mounted again no step brings a record
\* back, in particular none of the events that were pending (a feedback
\* timer not yet fired, an award request or response in flight).
C15_DestroyedOnQuit ==
  [][ /\ (user.id # 0 /\ handleQuitQuiz) => store'[quizSessionKey(user.id)] = Absent
      /\ (user.id # 0 /\ SandboxBack) => store'[codeSessionKey(user.id)] = Absent
      /\ Discard => store'[<<ResumeBanner(store, user), user.id>>] = Absent
      /\ \A key \in Keys :
           ( /\ store[key] = Absent
             /\ key[1] = QuizFeature => (~qp.mounted /\ ~qp'.mounted)
             /\ key[1] = CodeFeature => (~sb.mounted /\ ~sb'.mounted) )
           => store'[key] = Absent
    ]_vars

\* the quiz was quit while its feedback timer had not fired and the award
\* request of the last answer was in flight; the record is gone
C15_Witness ==
  /\ route = "/prompt" /\ user.id # 0 /\ ~qp.mounted
  /\ backEntry.route = "/quiz" /\ now = 2
  /\ qp.stale = 1 /\ Len(awardReqs) = 1
  /\ store[quizSessionKey(user.id)] = Absent

\* a step in which the award request fails: it leaves the network, the
\* backend is not changed and no response is produced
AwardFailStep ==
  /\ Len(awardReqs') < Len(awardReqs)
  /\ serverUsers' = serverUsers /\ awardResps' = awardResps

\* C16: the award is fire-and-forget.  A correct answer adds the award to the
\* session XP at once, with or without a token; whatever becomes of the
\* request, the feedback timer is armed and when it fires the runner moves
\* to the next question or to Finished with the XP unchanged; the session XP
\* never decreases; a failing request leaves the cached user, its stored
\* copy, the view and the session store as they were; and the runner does
\* leave the feedback state although the award service owes no answer.
C16_AwardFireAndForget ==
  /\ [][ /\ (AnswerStep /\ qp'.feedbackMessage = "Correct!")
            => /\ qp'.totalXpEarned = qp.totalXpEarned + XP_PER_CORRECT
               /\ qp'.timers # {}
         /\ TimerStep
            => /\ qp'.totalXpEarned = qp.totalXpEarned
               /\ \/ qp'.currentIndex = qp.currentIndex + 1 /\ ~qp'.answered
                  \/ qp'.finished /\ qp.currentIndex + 1 = Len(qp.quiz)
         /\ QuizSameView => qp'.totalXpEarned >= qp.totalXpEarned
         /\ AwardFailStep
            => /\ user' = user /\ lsUser' = lsUser
               /\ qp' = qp /\ store' = store
       ]_vars
  /\ [](qp.answered => (qp.timers # {} \/ qp.finished))
  /\ \A i \in 0 .. MaxRun - 1 :
       (qp.answered /\ ~qp.finished /\ qp.currentIndex = i)
         ~> (qp.finished \/ qp.currentIndex = i + 1)

\* the runner went on to the second question with the XP of the first while
\* the award request of the first answer is still unanswered
C16_Witness ==
  /\ qp.mounted /\ qp.currentIndex = 1 /\ ~qp.answered /\ qp.timers = {}
  /\ qp.totalXpEarned = 10
  /\ Len(awardReqs) = 1 /\ user.exp = 95

\* C17: a response to an award request that arrives when the quiz view is no
\* longer mounted changes no client state: the cached user, the stored
\* credentials and user copy and every stored session record stay as they are.
C17_LateResponseDiscarded ==
  [][ (~qp.mounted /\ \E k \in 1 .. MaxInFlight : AwardResponse(k))
      => /\ user' = user /\ token' = token
         /\ lsUser' = lsUser /\ lsToken' = lsToken
         /\ store' = store
    ]_vars

\* C18: clearing a record that is already absent (a second quit, on the
\* empty view that the Back button shows after the first) raises nothing and
\* changes nothing in the store: the handler completes its navigation to the
\* prompt page and the whole store is as the first clear left it; with no
\* user there is no key and the store is not touched either.
C18_ClearIsIdempotent ==
  [][ /\ (user.id # 0 /\ store[quizSessionKey(user.id)] = Absent /\ handleQuitQuiz)
         => (store' = store /\ route' = "/prompt")
      /\ (user.id # 0 /\ store[codeSessionKey(user.id)] = Absent /\ SandboxBack)
         => (store' = store /\ route' = "/prompt")
      /\ (user.id = 0 /\ (handleQuitQuiz \/ SandboxBack))
         => (store' = store /\ route' = "/prompt")
    ]_vars

\* the record was cleared by a first quit and the Back button has brought up
\* the empty view, whose Back to Prompt button clears once more
C18_Witness ==
  /\ route = "/quiz" /\ qp.mounted /\ qp.pristine /\ user.id # 0
  /\ Len(qp.quiz) = 0 /\ ~navState.present
  /\ store[quizSessionKey(user.id)] = Absent
  /\ ENABLED handleQuitQuiz

\* C19: a view mounted for a logged-in user over a stored string that does
\* not parse starts exactly as it would over no stored record, whatever the
\* incoming data: from the incoming list at index 0 when there is one, else
\* with an empty list; not finished, zero XP; and the mount completes.
C19_MalformedIsAbsent ==
  [][ /\ (QuizMountStep /\ user'.id # 0 /\ store[quizSessionKey(user'.id)] = Malformed)
         => /\ QuizRecord(qp') =
                 QuizRecord(QuizInitial(RemoveItem(store, quizSessionKey(user'.id)),
                                        user', navState', now, 0))
            /\ qp'.quiz = (IF HasIncoming(navState') THEN navState'.quizData ELSE <<>>)
            /\ navState'.present => qp'.sessionId = navState'.sessionId
            /\ qp'.currentIndex = 0 /\ ~qp'.finished /\ qp'.totalXpEarned = 0
      /\ (CodeMountStep /\ user'.id # 0 /\ store[codeSessionKey(user'.id)] = Malformed)
         => /\ CodeRecord(sb') =
                 CodeRecord(CodeInitial(RemoveItem(store, codeSessionKey(user'.id)),
                                        user', navState', now, 0))
            /\ sb'.questions = (IF HasIncoming(navState') THEN navState'.quizData ELSE <<>>)
            /\ navState'.present => sb'.sessionId = navState'.sessionId
            /\ sb'.currentIndex = 0 /\ ~sb'.finished
    ]_vars

\* the quiz view has just been mounted from the data of its history entry
\* over a string that did not parse, and its own record has replaced it
C19_Witness ==
  /\ qp.mounted /\ qp.pristine /\ user.id # 0 /\ qp.over = 0
  /\ HasIncoming(navState) /\ qp.quiz = navState.quizData /\ qp.currentIndex = 0
  /\ store[codeSessionKey(user.id)] = Malformed
  /\ store[quizSessionKey(user.id)].raw = "json"
  /\ backEntry.route = "/quiz" /\ now = 3

\* a stored record the resume routing may select: parsed, non-empty, unfinished
QuizResumable(raw) == raw.raw = "json" /\ Len(raw.value.quiz) > 0 /\ ~raw.value.finished
CodeResumable(raw) == raw.raw = "json" /\ Len(raw.value.questions) > 0 /\ ~raw.value.finished

\* C20: the Navbar Quiz click goes to /quiz when the user's MCQ record is
\* resumable, else to /code-sandbox when the coding record is, else to
\* /prompt, a record that does not parse counting as absent and no user
\* meaning /prompt; the banner of the prompt page offers the same feature.
C20_ResumeRouting ==
  [][ handleQuizClick
      => /\ route' = IF user.id = 0 THEN "/prompt"
                     ELSE IF QuizResumable(store[quizSessionKey(user.id)]) THEN "/quiz"
                     ELSE IF CodeResumable(store[codeSessionKey(user.id)]) THEN "/code-sandbox"
                     ELSE "/prompt"
         /\ (route = "/prompt" /\ isAuthenticated)
            => ResumeBanner(store, user) =
                 IF QuizResumable(store[quizSessionKey(user.id)]) THEN QuizFeature
                 ELSE IF CodeResumable(store[codeSessionKey(user.id)]) THEN CodeFeature
                 ELSE ""
    ]_vars

\* the inputs of the prompt form pass the validation, as the claims state it
InputsValid(p) ==
  /\ p.quizType \in {"mcq", "coding"}
  /\ p.selectedModel # ""
  /\ p.prompt \notin {"", " "}
  /\ p.quizType = "coding" => p.selectedLanguage # ""

\* the inputs of the prompt form
FormInputs(p) ==
  <<p.quizType, p.selectedModel, p.selectedLanguage, p.numQuestions, p.prompt>>

\* C21: PromptPage.handleSubmit issues a generation request exactly when a
\* quiz type and a model are selected, the prompt is not blank and (coding) a
\* language is selected, which is when the Generate button is enabled; with
\* invalid inputs it shows an error, issues nothing, stays on the page and
\* leaves the inputs alone; with valid inputs it clears whatever error was
\* showing and sends the inputs as they are.
C21_ValidationBlocksSubmission ==
  [][ PromptPageHandleSubmit
      => /\ InputsValid(pp) <=> (Len(genReqs') = Len(genReqs) + 1)
         /\ ~pp.loading => (InputsValid(pp) <=> ~GenerateDisabled(pp))
         /\ FormInputs(pp') = FormInputs(pp)
         /\ route' = route /\ navState' = navState /\ store' = store
         /\ ~InputsValid(pp)
            => /\ pp'.error # ""
               /\ genReqs' = genReqs
               /\ pp'.loading = pp.loading
         /\ InputsValid(pp)
            => /\ pp'.error = "" /\ pp'.loading
               /\ genReqs'[Len(genReqs')].prompt = pp.prompt
               /\ genReqs'[Len(genReqs')].quiz_type = pp.quizType
               /\ genReqs'[Len(genReqs')].language = pp.selectedLanguage
               /\ genReqs'[Len(genReqs')].num_questions = pp.numQuestions
    ]_vars

\* a submit with a blank prompt was refused, the message is still showing,
\* and the prompt has been corrected since: the next submit goes through
C21_Witness ==
  /\ route = "/prompt"
  /\ pp.error = "Please enter a prompt describing what you want to learn."
  /\ InputsValid(pp) /\ ~pp.loading /\ genReqs = <<>>
  /\ ENABLED PromptPageHandleSubmit

RetryMessage == "Failed to generate quiz. Please try again."

\* C22: when the generation request fails in transport (the fetch rejects or
\* the body does not parse), nothing is navigated to, no session record is
\* created or changed, no further request is issued, and the form that sent
\* it shows the retry message with the loading flag off, its inputs as they
\* were and the count of requests issued by its last submit as it was.
C22_TransportErrorSurfaced ==
  [][ \A k \in 1 .. MaxGen :
        GenerateFails(k)
        => /\ route' = route /\ navState' = navState /\ backEntry' = backEntry
           /\ store' = store /\ qp' = qp /\ sb' = sb
           /\ Len(genReqs') = Len(genReqs) - 1
           /\ \A j \in DOMAIN genReqs' : \E i \in DOMAIN genReqs : genReqs'[j] = genReqs[i]
           /\ genReqs[k].mounted
              => /\ pp'.error = RetryMessage
                 /\ pp'.loading = FALSE
                 /\ pp'.sent = pp.sent
                 /\ FormInputs(pp') = FormInputs(pp)
    ]_vars

\* a quiz was generated and left, its record is stored, and a second
\* generation request has failed: the form shows the retry message
C22_Witness ==
  /\ route = "/prompt" /\ user.id # 0
  /\ pp.error = RetryMessage /\ ~pp.loading /\ pp.sent = 1
  /\ genReqs = <<>> /\ now = 2
  /\ store[quizSessionKey(user.id)].raw = "json"

\* the question list of a stored record, and the feature its questions are of
StoredList(raw, feature) ==
  IF feature = QuizFeature THEN raw.value.quiz ELSE raw.value.questions

FeatureOfList(list) ==
  IF list[1].question[1] = "mcq" THEN QuizFeature ELSE CodeFeature

\* C23: in a tab that two accounts use in turn (account u generates quizzes
\* of u questions), a step changes at most one stored record and only one
\* under a key of the cached user; the record under the key of (u, feature)
\* is always of a session that u generated and of that feature; and a view
\* mounted while an account is logged in resumes only a session that this
\* account generated.
C23_RecordsIsolated ==
  /\ [][ /\ \A k1, k2 \in Features \X TabUsers :
              (store'[k1] # store[k1] /\ store'[k2] # store[k2]) => k1 = k2
         /\ \A k \in Features \X TabUsers :
              store'[k] # store[k] => k[2] \in {user.id, user'.id}
         /\ (QuizMountStep /\ token' # 0 /\ qp'.over # 0) => Len(qp'.quiz) = token'
         /\ (CodeMountStep /\ token' # 0 /\ sb'.over # 0) => Len(sb'.questions) = token'
       ]_vars
  /\ [](\A k \in Features \X TabUsers :
          store[k].raw = "json"
          => /\ Len(StoredList(store[k], k[1])) = k[2]
             /\ FeatureOfList(StoredList(store[k], k[1])) = k[1])

\* what of the sandbox the user sees as progress: position, end, editor text
SandboxProgress(c) == <<c.currentIndex, c.finished, c.code>>

\* C24: in the sandbox, a submission whose result is a failure or whose
\* request fails leaves the challenge index, the finished flag and the editor
\* text as they were and arms no timer; a submission whose result is overall
\* success arms exactly one timer for the challenge it was made on, and the
\* index or the finished flag change only when such a timer fires (to the next
\* challenge, or to finished after the last one); running the code without
\* submitting never changes index, finished flag or editor text and arms no
\* timer.
C24_AdvanceIffSuccess ==
  [][ /\ (SubmitResult("failed") \/ SubmitResult("error"))
         => /\ SandboxProgress(sb') = SandboxProgress(sb)
            /\ sb'.timers = sb.timers
            /\ ~sb'.isSubmitting
      /\ SubmitResult("success")
         => /\ SandboxProgress(sb') = SandboxProgress(sb)
            /\ sb'.timers = Append(sb.timers, sb.submitIndex)
      /\ (handleRunCode \/ \E outcome \in Outcomes : RunResult(outcome))
         => /\ SandboxProgress(sb') = SandboxProgress(sb)
            /\ sb'.timers = sb.timers
      /\ (sb'.currentIndex # sb.currentIndex \/ sb'.finished # sb.finished)
         => /\ sb.timers # <<>>
            /\ sb'.timers = Tail(sb.timers)
            /\ IF Head(sb.timers) + 1 < Len(sb.questions)
               THEN sb'.currentIndex = Head(sb.timers) + 1 /\ sb'.finished = sb.finished
               ELSE sb'.finished /\ sb'.currentIndex = sb.currentIndex
      /\ Len(sb'.timers) > Len(sb.timers)
         => sb.isSubmitting /\ sb'.output = "All tests passed!"
    ]_vars

\* a passing submission moved the sandbox to the second challenge, and a
\* submission there has just failed: the view stays on the second challenge
C24_Witness ==
  /\ sb.mounted /\ sb.currentIndex = 1 /\ ~sb.finished
  /\ sb.output = "Some tests failed"
  /\ sb.code = "typed"
  /\ sb.timers = <<>>

\* the tag of the question on screen is one of the four letters of the list
TagInList(q) ==
  /\ q.currentIndex + 1 \in DOMAIN q.quiz
  /\ \E i \in 1 .. 4 : Letters[i] = q.quiz[q.currentIndex + 1].correct_answer

C26_AwardedOncePerQuestion ==
  (qp.mounted /\ Len(qp.quiz) > 0)
    => /\ qp.totalXpEarned <= XP_PER_CORRECT * Len(qp.quiz)
       /\ (now = 2 /\ qp.sessionId = 1)
            => XpRequested(1) <= XP_PER_CORRECT * Len(qp.quiz)

\* C27: in every reachable state of the authentication context the cached
\* user is set exactly when the token is set, localStorage holds the same
\* user and token as the memory, and the cached user is the record of the
\* account the token was issued for.
C27_UserTokenConsistent ==
  /\ (user.id # 0) <=> (token # 0)
  /\ lsUser = user /\ lsToken = token
  /\ token # 0 => user.id = token

\* C28: once every award request of the quiz has been answered and every
\* response has been delivered to the client, in whatever order, the cached
\* user record (experience, level, requirement) is the server's record of
\* that user.
C28_CachedUserConverges ==
  (user.id # 0 /\ awardReqs = <<>> /\ awardResps = <<>>)
    => user = UserRecord(user.id, serverUsers[user.id])

\* the MCQ record stored for user 1, as a set of at most one record
StoredQuiz(st) ==
  IF st[quizSessionKey(1)].raw = "json" THEN {st[quizSessionKey(1)].value} ELSE {}

\* C29: in every reachable state the index of an MCQ session with n > 0
\* questions is within 0 .. n - 1, and so is the index of the stored record;
\* as long as the view shows one session (same session id before and after
\* a step, a reload included) the index stays or grows by exactly 1, a view
\* mounted on the session of the stored record does not start below the
\* stored index, and the stored index of one session stays or grows by
\* exactly 1.
C29_IndexInRangeMonotonic ==
  /\ []((qp.mounted /\ Len(qp.quiz) > 0) => qp.currentIndex \in 0 .. Len(qp.quiz) - 1)
  /\ [](\A r \in StoredQuiz(store) :
          Len(r.quiz) > 0 => r.currentIndex \in 0 .. Len(r.quiz) - 1)
  /\ [][ /\ (qp.mounted /\ qp'.mounted /\ Len(qp.quiz) > 0 /\ qp'.sessionId = qp.sessionId)
            => qp'.currentIndex \in {qp.currentIndex, qp.currentIndex + 1}
         /\ \A r \in StoredQuiz(store) :
              (QuizMountStep /\ Len(r.quiz) > 0 /\ qp'.sessionId = r.sessionId /\ user'.id = 1)
                => qp'.currentIndex >= r.currentIndex
         /\ \A r \in StoredQuiz(store), r1 \in StoredQuiz(store') :
              (Len(r.quiz) > 0 /\ r1.sessionId = r.sessionId)
                => r1.currentIndex \in {r.currentIndex, r.currentIndex + 1}
       ]_vars

\* C30: in the sandbox, under every interleaving of edits, submissions,
\* results and auto-advance timers, with up to MaxPending timers pending (a
\* second passing submission of a challenge made while the first delay is
\* running included), the index stays or grows by exactly 1 in every step,
\* so no challenge is skipped, and a timer armed on an earlier challenge than
\* the one shown leaves the editor text of the shown challenge as it is.
C30_OneAdvancePerPass ==
  [][ CodeSameView
        => /\ sb'.currentIndex \in {sb.currentIndex, sb.currentIndex + 1}
           /\ (Len(sb'.timers) < Len(sb.timers) /\ Head(sb.timers) < sb.currentIndex)
                => sb'.code = sb.code
    ]_vars

\* C31: in every reachable state of the MCQ view, the hints it holds were
\* fetched for the question at the current index; a response to a request
\* made for an earlier question does not fill the list.
C31_HintsOfDisplayedQuestion ==
  qp.mounted => \A i \in DOMAIN qp.hints : qp.hints[i] = qp.currentIndex

\* C32: whenever a hint request ends, with hints, with an error body or
\* with a rejection, the view is still up, the loading flag is false, the
\* hints are a list and no rejection has left the hook.
C32_HintFailuresDegradeSoftly ==
  [][ \A k \in 1 .. MaxHints, outcome \in HintOutcomes :
        HintResponds(k, outcome)
          => /\ qp'.mounted /\ ~qp'.crashed
             /\ ~qp'.hintLoading
             /\ ~qp'.hintRejected
    ]_vars

\* C33: in every reachable state of the prompt page the question count is
\* at least 1 and at most 20, and at most 10 while the quiz type is coding;
\* every generation request in flight carries such a count for its own type.
C33_CountWithinLimit ==
  /\ route = "/prompt" => pp.numQuestions \in 1 .. CountLimit(pp.quizType)
  /\ \A k \in DOMAIN genReqs :
       genReqs[k].num_questions \in 1 .. CountLimit(genReqs[k].quiz_type)

\* C34: after the application has booted, whatever user and token
\* localStorage held and whoever was logged in before, the cached user and
\* token are null, the two localStorage entries are removed, isAuthenticated
\* and isLoading are false, and sessionStorage is as it was.
C34_BootClearsAuthentication ==
  [][ Reload
        => /\ user' = NoUser /\ token' = 0
           /\ lsUser' = NoUser /\ lsToken' = 0
           /\ ~(user'.id # 0 /\ token' # 0)
           /\ ~isLoading'
           /\ store' = store
    ]_vars

\* user 1 logged in after the first load and resumed the stored MCQ session;
\* the page was loaded again on /quiz: nobody is logged in, localStorage is
\* empty and the stored record is still there
C34_Witness ==
  /\ ~isLoading
  /\ route = "/quiz" /\ qp.mounted /\ qp.instance = 1
  /\ user = NoUser /\ token = 0 /\ lsUser = NoUser /\ lsToken = 0
  /\ store[quizSessionKey(1)].raw = "json"

\* C35: a successful login sets token and user together, in memory and in
\* localStorage, to the account that logged in, and leads to the home page
\* with no message; a rejected login or a network error gives a failure value
\* with a non-empty message, which the page shows, and leaves token, user,
\* both localStorage entries and the route exactly as they were.
C35_LoginAllOrNothing ==
  [][ /\ \A uid \in TabUsers :
           Login(uid)
             => /\ token' = uid /\ user' = UserRecord(uid, serverUsers[uid])
                /\ lsToken' = token' /\ lsUser' = user'
                /\ route' = "/" /\ lp'.error = ""
      /\ \A outcome \in LoginFailures :
           LoginFails(outcome)
             => /\ ~LoginFailureValue(outcome).success
                /\ LoginFailureValue(outcome).error # ""
                /\ lp'.error = LoginFailureValue(outcome).error
                /\ token' = token /\ user' = user
                /\ lsToken' = lsToken /\ lsUser' = lsUser
                /\ route' = route /\ store' = store
    ]_vars

\* account 1 has used the tab and logged out; a later login attempt has just
\* been rejected: the page shows the rejection and nobody is logged in
C35_Witness ==
  /\ route = "/login" /\ lp.error = RejectionDetail
  /\ user = NoUser /\ token = 0 /\ lsUser = NoUser /\ lsToken = 0
  /\ store[quizSessionKey(1)].raw = "json"

\* C36: at most one generation request is in flight at any time; when a
\* request of the form on screen ends, by response or by failure, the form's
\* loading flag is false; a response leads to /code-sandbox for a coding
\* request and to /quiz for an MCQ request, with the returned questions and
\* the session id allocated at that moment.
C36_OneGenerationAtATime ==
  /\ [](Len(genReqs) <= 1)
  /\ [][ \A k \in 1 .. MaxOverlap :
           /\ GenerateFails(k) => ~pp'.loading
           /\ \A n \in 1 .. MaxQuestions :
                GenerateResponds(k, n)
                  => /\ ~pp'.loading
                     /\ route' = IF genReqs[k].quiz_type = "coding"
                                 THEN "/code-sandbox" ELSE "/quiz"
                     /\ Len(navState'.quizData) = n
                     /\ navState'.sessionId = now /\ now' > now
       ]_vars

\* a quiz view is on screen and nobody is logged in
ViewWithoutOwner == route \in QuizRoutes /\ user.id = 0

\* a quiz view of a logged-in user has no questions and no stored record
ViewWithoutQuestions ==
  /\ user.id # 0
  /\ \/ /\ route = "/quiz" /\ qp.mounted /\ Len(qp.quiz) = 0
        /\ store[quizSessionKey(user.id)] = Absent
     \/ /\ route = "/code-sandbox" /\ sb.mounted /\ Len(sb.questions) = 0
        /\ store[codeSessionKey(user.id)] = Absent

\* C37: a step that starts or ends with a quiz view on screen and nobody
\* logged in, or with a quiz view that has no questions and no stored record,
\* leaves every session record as it was; and a view that starts with nobody
\* logged in takes its questions from the navigation data alone, at index 0.
C37_NoPersistenceWithoutOwnerOrQuestions ==
  [][ /\ ( \/ ViewWithoutOwner \/ ViewWithoutOwner'
           \/ ViewWithoutQuestions \/ ViewWithoutQuestions' )
         => store' = store
      /\ (route' = "/quiz" /\ user'.id = 0 /\ qp'.mounted /\ qp'.pristine)
         => /\ qp'.quiz = IF navState'.present THEN navState'.quizData ELSE <<>>
            /\ qp'.currentIndex = 0 /\ ~qp'.finished
      /\ (route' = "/code-sandbox" /\ user'.id = 0 /\ sb'.mounted /\ sb'.pristine)
         => /\ sb'.questions = IF navState'.present THEN navState'.quizData ELSE <<>>
            /\ sb'.currentIndex = 0 /\ ~sb'.finished
    ]_vars
====
